---- MODULE Spec2Model ----
(***************************************************************************)
(* Connector & Import Orchestration Framework.                             *)
(*                                                                         *)
(* Components modelled, each under its own specification:                  *)
(*   SpecOrch   ImportOrchestrator.run_full_sync  (import_orchestrator.py) *)
(*   SpecRL     RateLimiter                       (connectors/utils.py)    *)
(*   SpecCache  ResponseCache                     (connectors/utils.py)    *)
(*   SpecRetry  retry_with_backoff                (connectors/utils.py)    *)
(*   SpecFetch  the connector fetches decorated with retry_with_backoff    *)
(*   SpecRegistry    PluginRegistry, calls made one at a time (registry.py)*)
(*   SpecRegThreads  PluginRegistry, calls of two threads interleaved      *)
(*   SpecManager     PluginManager discovery        (plugins/manager.py)   *)
(*   SpecLoad        PluginManager.load_plugin      (plugins/manager.py)   *)
(*   SpecRescan      discovery over a directory that changes               *)
(*   SpecConn        one connector: authenticate, get_holdings, disconnect *)
(*   SpecSourceId, SpecTransactions, SpecSyncSource                        *)
(*                   functions without state: generate_source_id,          *)
(*                   get_transactions, _sync_source                        *)
(*   SpecLifecycle   run_full_sync cycles with disconnect_all between them *)
(*   SpecOrchPlugins run_full_sync in a process whose registry has plugins *)
(*                                                                         *)
(* Strings built with f-strings are modelled as sequences of tokens, so    *)
(* that "the message contains X" is a membership test on the tokens.       *)
(***************************************************************************)
EXTENDS Integers, Sequences, FiniteSets, TLC

VARIABLES
    \* ---- ImportOrchestrator ----
    config,           \* self.config: which sections of data_sources.yaml are enabled
    connectors,       \* self.connectors: insertion-ordered dict, as the sequence of its keys
    initialized,      \* self._initialized
    pc,               \* position of run_full_sync: "idle", "sync" (in the loop), "done" (returned)
    results,          \* the SyncResults of the current (or last) cycle
    source_filter,    \* argument of the current cycle
    sources_to_sync,  \* local of run_full_sync: keys to iterate, in order
    sync_idx,         \* how many of sources_to_sync the loop has consumed
    init_log,         \* history: init_results of this cycle (<<>> if it did not initialize)
    did_init,         \* history: this cycle ran initialize_connectors
    fetch_log,        \* history: per source, whether it was synced and what its fetch raised
    auth_log,         \* history: what construction + authenticate() did at the last initialization
    init_failed,      \* history: sources whose last initialization reported failure
    cycles,           \* number of cycles started
    disc_log,         \* history: what the disconnect_all calls did
    \* ---- clock shared by time.time() and datetime.now() ----
    now,              \* current time, in seconds
    \* ---- RateLimiter ----
    rl,               \* the limiter: calls_per_minute, min_interval, last_call_time, call_times
    rl_cps,           \* the calls_per_second it was constructed with
    rl_hist,          \* history: return times of the wait() calls since construction or reset()
    rl_ret,           \* history: value returned by the last wait()
    rl_sleeps,        \* history: number of time.sleep calls of the last wait()
    rl_elapsed,       \* history: time that passed between entry and return of the last wait()
    rl_over,          \* history: time the last wait() overslept beyond what it asked for
    rl_calls,         \* history: wait() calls made since construction
    \* ---- ResponseCache ----
    cache_ttl,        \* self.ttl, in seconds
    cache,            \* self._cache: key -> (value, expiry_time), or absent
    c_last,           \* history: the last operation and what it returned
    c_set,            \* history: per key, the last set() still in force
    \* ---- retry_with_backoff ----
    rt_cfg,           \* decorator arguments: max_retries, initial_delay, max_delay, exponential_base, exceptions, on_retry
    rt_script,        \* the wrapped function: the errors its first invocations raise, then it succeeds
    rt_pc,            \* position of wrapper: "ready", "loop", "returned", "raised"
    rt_attempt,       \* loop variable attempt
    rt_delay,         \* local delay
    rt_last,          \* local last_exception
    rt_calls,         \* history: invocations of the wrapped function
    rt_sleeps,        \* history: the delays slept, in order
    rt_observed,      \* history: the attempt numbers on_retry was called with
    rt_trace,         \* history: invocations, on_retry calls and sleeps, in the order they happened
    rt_result,        \* what wrapper returned or raised
    \* ---- PluginRegistry ----
    reg_instance,     \* cls._instance: NoObj for None, else the object's index in reg_heap
    reg_heap,         \* the PluginRegistry objects created so far: _plugins, _enabled
    reg_lock,         \* cls._lock: the thread holding it, NoThread if it is free
    md_mut,           \* the PluginMetadata objects a caller has changed in place
    reg_self,         \* the reference the sequential caller got from PluginRegistry()
    reg_last,         \* history: the last call of the sequential caller, its result and the object before it
    reg_refs,         \* history: the objects that constructions have returned
    th,               \* per thread: position, current call, argument, reference held, result
    reg_true,         \* history: per id, register calls that returned True since the id was last removed
    reg_ops,          \* number of calls the threads have begun
    \* ---- PluginManager ----
    mg_exists,        \* whether self.plugins_dir exists
    mg_dir,           \* the entries of self.plugins_dir, in the order iterdir() yields them
    mg_discovered,    \* self._discovered: the metadata of its values, in insertion order
    mg_last,          \* history: the last call, what it returned and what it raised
    mg_load,          \* history: the last load_plugin call: connector.py as it found it, its stages, its outcome
    mg_prev,          \* history: _discovered and the registry as the last call found them
    mg_stale,         \* history: "unscanned", "fresh", or "stale" once the directory changed after the last scan
    \* one connector
    cn,               \* the connector object: its configuration and its fields
    cn_before,        \* history: the connector as the last call found it
    cn_last,          \* history: the last call, what it returned or raised, its network calls
    cn_ops,           \* calls made so far
    \* functions without state, applied to arguments drawn at the start
    fn_name,          \* the function that was applied, "-" before
    fn_in,            \* its arguments
    fn_out            \* what it returned

orchVars == <<config, connectors, initialized, pc, results, source_filter,
              sources_to_sync, sync_idx, init_log, did_init, fetch_log,
              auth_log, init_failed, cycles, disc_log>>

rlVars == <<rl, rl_cps, rl_hist, rl_ret, rl_sleeps, rl_elapsed, rl_over, rl_calls>>

cacheVars == <<cache_ttl, cache, c_last, c_set>>

retryVars == <<rt_cfg, rt_script, rt_pc, rt_attempt, rt_delay, rt_last,
               rt_calls, rt_sleeps, rt_observed, rt_trace, rt_result>>

regVars == <<reg_instance, reg_heap, reg_lock, md_mut, reg_self, reg_last,
             reg_refs, th, reg_true, reg_ops>>

mgrVars == <<mg_exists, mg_dir, mg_discovered, mg_last, mg_load, mg_prev, mg_stale>>

connVars == <<cn, cn_before, cn_last, cn_ops>>

callVars == <<fn_name, fn_in, fn_out>>

vars == <<orchVars, now, rlVars, cacheVars, retryVars, regVars, mgrVars, connVars, callVars>>

-----------------------------------------------------------------------------
(* Bounds *)
MaxSources == 3      \* enabled sources in a configuration
MaxRows    == 1      \* rows a fetched table may have
MaxDisconnects == 2  \* calls of disconnect_all
MaxCycles  == 2      \* run_full_sync cycles on one orchestrator
StartTime  == 1      \* clock value at construction (time.time() is positive)
MaxTime    == 150    \* the clock stops advancing here
MaxCpm     == 3      \* largest calls_per_minute a limiter is configured with
MaxCalls   == 4      \* wait() calls on one limiter
MaxOver    == 1      \* seconds a time.sleep may oversleep
MaxCacheTime == 80   \* the clock stops here while the cache is exercised
MaxRetries == 2      \* largest max_retries
MaxFails   == 3      \* failures the wrapped function raises before it succeeds
MaxNet     == 4      \* requests the network is scripted for in a connector fetch
MaxRegOps  == 6      \* calls the threads make on the registry
MaxEntries == 3      \* entries of the plugins directory
MaxLoadEntries == 1  \* entries of the plugins directory while plugins are loaded
MaxScanEntries == 2  \* entries of the plugins directory while it changes between scans
MaxClasses == 2      \* plugin classes a connector module defines
MaxExchanges == 2    \* exchanges of the configuration of the CCXT connector
MaxRequired == 2     \* keys passed to _validate_config
MaxConnOps == 4      \* calls made on one connector
MaxTrades == 2       \* trades a source reports in one fetch

-----------------------------------------------------------------------------
(* Helpers on sequences *)
Range(s) == {s[i] : i \in 1..Len(s)}

RECURSIVE SumOver(_, _)
SumOver(s, f) == IF s = <<>> THEN 0 ELSE s[1][f] + SumOver(Tail(s), f)

RECURSIVE SeqFilter(_, _)
SeqFilter(s, keep) ==
    IF s = <<>> THEN <<>>
    ELSE IF s[1] \in keep THEN <<s[1]>> \o SeqFilter(Tail(s), keep)
         ELSE SeqFilter(Tail(s), keep)

-----------------------------------------------------------------------------
(* Source identifiers of data_sources.yaml *)
CryptoId    == "ccxt"
BrokerIds   == <<"ibkr", "fidelity">>
ProviderIds == <<"tiingo", "yahoo_finance", "alpha_vantage">>
SourceIds   == {CryptoId} \cup Range(BrokerIds) \cup Range(ProviderIds)

\* Sources for which the orchestrator constructs a connector and authenticates
Constructible == {"ccxt", "ibkr", "tiingo"}

\* Outcome of constructing a connector and calling authenticate():
\*   ok           authenticate returned (True, message)
\*   fail         authenticate returned (False, message)
\*   raise        the constructor or authenticate raised an Exception
\*   import_error the connector module could not be imported
AuthOutcomes == {"ok", "fail", "raise", "import_error"}

None == [success |-> FALSE, message |-> <<"None">>, none |-> TRUE]
Tuple(ok, msg) == [success |-> ok, message |-> msg, none |-> FALSE]

(* The exception taxonomy of base_connector.py, plus any other Exception.  *)
(* str(e) of each is a distinct token.                                     *)
Exceptions ==
    { [type |-> "AuthenticationError", msg |-> "bad credentials"],
      [type |-> "RateLimitError",      msg |-> "too many requests"],
      [type |-> "DataFetchError",      msg |-> "timeout"],
      [type |-> "ConfigurationError",  msg |-> "missing key"],
      [type |-> "Exception",           msg |-> "boom"] }

NoExc == [type |-> "-", msg |-> "-"]

(* What one fetch (get_holdings / get_transactions) does *)
FetchOutcomes ==
    {[kind |-> "none", n |-> 0, exc |-> NoExc]}
    \cup {[kind |-> "rows", n |-> k, exc |-> NoExc] : k \in 0..MaxRows}
    \cup {[kind |-> "raise", n |-> 0, exc |-> e] : e \in Exceptions}

NotCalled == [kind |-> "not_called", n |-> 0, exc |-> NoExc]

-----------------------------------------------------------------------------
(* ImportOrchestrator: initialization                                      *)

\* _init_ccxt_connector: returns None when no exchange is enabled
_init_ccxt_connector(cfg, out) ==
    IF ~cfg.exchanges THEN None
    ELSE CASE out = "ok"           -> Tuple(TRUE,  <<"authenticated">>)
           [] out = "fail"         -> Tuple(FALSE, <<"not authenticated">>)
           [] out = "import_error" -> Tuple(FALSE, <<"CCXT not available", "no module">>)
           [] OTHER                -> Tuple(FALSE, <<"Failed to initialize CCXT", "boom">>)

\* _init_broker_connector: schwab and ibkr are constructed, any other id is unknown
_init_broker_connector(broker_id, out) ==
    IF broker_id \in {"schwab", "ibkr"}
    THEN CASE out = "ok"   -> Tuple(TRUE,  <<"authenticated">>)
           [] out = "fail" -> Tuple(FALSE, <<"not authenticated">>)
           [] out = "import_error" -> Tuple(FALSE, <<"Failed to initialize", broker_id, "no module">>)
           [] OTHER        -> Tuple(FALSE, <<"Failed to initialize", broker_id, "boom">>)
    ELSE Tuple(FALSE, <<"Unknown broker", broker_id>>)

\* _init_market_connector: tiingo is constructed, yahoo_finance needs no
\* connector, any other provider yields None
_init_market_connector(provider, out) ==
    IF provider = "tiingo"
    THEN CASE out = "ok"   -> Tuple(TRUE,  <<"authenticated">>)
           [] out = "fail" -> Tuple(FALSE, <<"not authenticated">>)
           [] out = "import_error" -> Tuple(FALSE, <<"Failed to initialize", provider, "no module">>)
           [] OTHER        -> Tuple(FALSE, <<"Failed to initialize", provider, "boom">>)
    ELSE IF provider = "yahoo_finance"
    THEN Tuple(TRUE, <<"Yahoo Finance ready (no auth needed)">>)
    ELSE None

\* The result of initializing one enabled source, and whether the connector
\* was stored in self.connectors (only on success of a constructed connector)
InitOne(cfg, id, out) ==
    LET r == IF id = CryptoId THEN _init_ccxt_connector(cfg, out)
             ELSE IF id \in Range(BrokerIds) THEN _init_broker_connector(id, out)
             ELSE _init_market_connector(id, out)
    IN  [source_id |-> id, result |-> r,
         stored |-> (~r.none /\ r.success /\ id # "yahoo_finance")]

\* Enabled sources in the order initialize_connectors visits them
EnabledOrder(cfg) ==
    (IF cfg.crypto THEN <<CryptoId>> ELSE <<>>)
    \o SeqFilter(BrokerIds, cfg.brokers)
    \o SeqFilter(ProviderIds, cfg.providers)

RECURSIVE InitAll(_, _, _)
InitAll(cfg, ids, auth) ==
    IF ids = <<>> THEN <<>>
    ELSE <<InitOne(cfg, ids[1],
                   IF ids[1] \in Constructible THEN auth[ids[1]] ELSE "ok")>>
         \o InitAll(cfg, Tail(ids), auth)

RECURSIVE InitResults(_)
\* the dict `results` of initialize_connectors: entries with a non-None result
InitResults(all) ==
    IF all = <<>> THEN <<>>
    ELSE (IF all[1].result.none THEN <<>>
          ELSE <<[source_id |-> all[1].source_id,
                  success   |-> all[1].result.success,
                  message   |-> all[1].result.message]>>)
         \o InitResults(Tail(all))

RECURSIVE InitStored(_)
\* the keys added to self.connectors, in order
InitStored(all) ==
    IF all = <<>> THEN <<>>
    ELSE (IF all[1].stored THEN <<all[1].source_id>> ELSE <<>>) \o InitStored(Tail(all))

\* initialize_connectors(): init results and the new self.connectors
initialize_connectors(cfg, auth) ==
    LET all == InitAll(cfg, EnabledOrder(cfg), auth)
    IN  [results |-> InitResults(all), connectors |-> InitStored(all)]

RECURSIVE InitErrors(_)
\* run_full_sync lines 266-268: one error string per failed init result
InitErrors(init_results) ==
    IF init_results = <<>> THEN <<>>
    ELSE (IF ~init_results[1].success
          THEN <<<<init_results[1].source_id>> \o init_results[1].message>>
          ELSE <<>>)
         \o InitErrors(Tail(init_results))

-----------------------------------------------------------------------------
(* ImportOrchestrator: per-source sync                                     *)

ImportResult(id, ok, fetched, imported, updated, skipped, err) ==
    [source_id |-> id, success |-> ok, records_fetched |-> fetched,
     records_imported |-> imported, records_updated |-> updated,
     records_skipped |-> skipped, error_message |-> err]

\* len(df) of a fetch that returned; None and the empty table both count 0 rows
Rows(f) == IF f.kind = "rows" THEN f.n ELSE 0

\* variant: the DataFetchError clause leaves the exception text out
ErrorMessage_NoDetail(e) ==
    CASE e.type = "AuthenticationError" -> <<"Authentication failed", e.msg>>
      [] e.type = "RateLimitError"      -> <<"Rate limit exceeded", e.msg>>
      [] e.type = "DataFetchError"      -> <<"Data fetch failed">>
      [] OTHER                          -> <<"Unexpected error", e.msg>>

\* the except clauses of _sync_source
ErrorMessage(e) ==
    CASE e.type = "AuthenticationError" -> <<"Authentication failed", e.msg>>
      [] e.type = "RateLimitError"      -> <<"Rate limit exceeded", e.msg>>
      [] e.type = "DataFetchError"      -> <<"Data fetch failed", e.msg>>
      [] OTHER                          -> <<"Unexpected error", e.msg>>

\* variant: the holdings are processed as soon as they are fetched
_sync_source_EagerProcess(id, h, t) ==
    IF h.kind = "raise"
    THEN [raised |-> FALSE, exc |-> NoExc,
          result |-> ImportResult(id, FALSE, 0, 0, 0, 0, ErrorMessage(h.exc))]
    ELSE IF t.kind = "raise"
    THEN [raised |-> FALSE, exc |-> NoExc,
          result |-> ImportResult(id, FALSE, Rows(h), Rows(h), 0, 0, ErrorMessage(t.exc))]
    ELSE [raised |-> FALSE, exc |-> NoExc,
          result |-> ImportResult(id, TRUE, Rows(h) + Rows(t),
                                  Rows(h) + Rows(t), 0, 0, <<>>)]

\* _sync_source: h and t are what get_holdings and get_transactions do.
\* Returns [raised, exc, result]; every Exception is caught inside.
_sync_source(id, h, t) ==
    IF h.kind = "raise"
    THEN [raised |-> FALSE, exc |-> NoExc,
          result |-> ImportResult(id, FALSE, 0, 0, 0, 0, ErrorMessage(h.exc))]
    ELSE IF t.kind = "raise"
    THEN [raised |-> FALSE, exc |-> NoExc,
          result |-> ImportResult(id, FALSE, Rows(h), 0, 0, 0, ErrorMessage(t.exc))]
    ELSE [raised |-> FALSE, exc |-> NoExc,
          result |-> ImportResult(id, TRUE, Rows(h) + Rows(t),
                                  Rows(h) + Rows(t), 0, 0, <<>>)]

\* variant: the loop forgets to accumulate records_imported
SyncIteration_NoTotal(res, id, h, t) ==
    LET r == _sync_source(id, h, t) IN
    [res EXCEPT
        !.source_results = Append(@, r.result),
        !.errors = IF ~r.result.success /\ r.result.error_message # <<>>
                   THEN Append(@, <<id>> \o r.result.error_message)
                   ELSE @]

\* One iteration of the loop of run_full_sync (lines 279-298) on `res`
SyncIteration(res, id, h, t) ==
    LET r == _sync_source(id, h, t) IN
    IF ~r.raised
    THEN [res EXCEPT
            !.source_results = Append(@, r.result),
            !.total_records_imported = @ + r.result.records_imported,
            !.total_records_updated  = @ + r.result.records_updated,
            !.total_records_skipped  = @ + r.result.records_skipped,
            !.errors = IF ~r.result.success /\ r.result.error_message # <<>>
                       THEN Append(@, <<id>> \o r.result.error_message)
                       ELSE @]
    ELSE [res EXCEPT
            !.errors = Append(@, <<id, r.exc.msg>>),
            !.source_results =
                Append(@, ImportResult(id, FALSE, 0, 0, 0, 0, <<r.exc.msg>>))]

\* SyncResults.success
Success(res) == \E i \in 1..Len(res.source_results) : res.source_results[i].success

NewSyncResults ==
    [source_results |-> <<>>, total_records_imported |-> 0,
     total_records_updated |-> 0, total_records_skipped |-> 0,
     errors |-> <<>>, completed |-> FALSE]

-----------------------------------------------------------------------------
(* ImportOrchestrator: state machine of run_full_sync                      *)

EnabledSet(cfg) ==
    (IF cfg.crypto THEN {CryptoId} ELSE {}) \cup cfg.brokers \cup cfg.providers

Configs ==
    { c \in [crypto : BOOLEAN, exchanges : BOOLEAN,
             brokers : SUBSET Range(BrokerIds),
             providers : SUBSET Range(ProviderIds)] :
        /\ c.exchanges => c.crypto
        /\ Cardinality(EnabledSet(c)) <= MaxSources }

\* source_filter: None, or a list of ids (possibly empty)
NoFilter == [given |-> FALSE, ids |-> {}]
Filters  == {NoFilter} \cup {[given |-> TRUE, ids |-> f] : f \in {{}, {"ibkr"}}}

\* `if source_filter:` is false for None and for the empty list
FilterApplies(f) == f.given /\ f.ids # {}

NoFetch == [s \in SourceIds |-> [called |-> FALSE, exc |-> NoExc]]

NoDisconnect == [calls |-> 0, held |-> <<>>, attempts |-> <<>>, raised |-> {}]

\* lines 452-457: the loop over self.connectors from the i-th on; acc is the
\* list of the connectors whose disconnect() was called
RECURSIVE DisconnectFrom_StopOnError(_, _, _, _)
\* variant: the first disconnect() that raises ends the loop
DisconnectFrom_StopOnError(conns, i, out, acc) ==
    IF i > Len(conns) THEN acc
    ELSE IF out[conns[i]] = "raise" THEN Append(acc, conns[i])
    ELSE DisconnectFrom_StopOnError(conns, i + 1, out, Append(acc, conns[i]))

RECURSIVE DisconnectFrom(_, _, _, _)
\* the try/except of lines 453-457 is inside the loop: `except Exception`
\* logs and the loop goes on
DisconnectFrom(conns, i, out, acc) ==
    IF i > Len(conns) THEN acc
    ELSE IF out[conns[i]] = "raise"
    THEN DisconnectFrom(conns, i + 1, out, Append(acc, conns[i]))
    ELSE DisconnectFrom(conns, i + 1, out, Append(acc, conns[i]))

\* disconnect_all, lines 450-460
disconnect_all(conns, out) ==
    [attempts |-> DisconnectFrom(conns, 1, out, <<>>),
     connectors |-> <<>>,
     initialized |-> FALSE]

OrchStart(cfgs) ==
    /\ config \in cfgs
    /\ connectors = <<>>
    /\ initialized = FALSE
    /\ pc = "idle"
    /\ results = NewSyncResults
    /\ source_filter = NoFilter
    /\ sources_to_sync = <<>>
    /\ sync_idx = 0
    /\ init_log = <<>>
    /\ did_init = FALSE
    /\ fetch_log = NoFetch
    /\ auth_log = [s \in Constructible |-> "ok"]
    /\ init_failed = {}
    /\ cycles = 0
    /\ disc_log = NoDisconnect

\* run_full_sync lines 255-276: new SyncResults, initialization when not yet
\* done, selection of the sources to sync
RunFullSyncBegin(f, auth) ==
    /\ pc \in {"idle", "done"}
    /\ cycles < MaxCycles
    /\ cycles' = cycles + 1
    /\ source_filter' = f
    /\ LET init == IF ~initialized
                   THEN initialize_connectors(config, auth)
                   ELSE [results |-> <<>>, connectors |-> <<>>]
           conns == IF ~initialized THEN connectors \o init.connectors ELSE connectors
       IN  /\ connectors' = conns
           /\ results' = [NewSyncResults EXCEPT !.errors = InitErrors(init.results)]
           /\ init_log' = init.results
           /\ auth_log' = IF ~initialized THEN auth ELSE auth_log
           /\ init_failed' = IF ~initialized
                             THEN {init.results[i].source_id : i \in
                                     {j \in 1..Len(init.results) : ~init.results[j].success}}
                             ELSE init_failed
           /\ sources_to_sync' = IF FilterApplies(f) THEN SeqFilter(conns, f.ids) ELSE conns
    /\ did_init' = ~initialized
    /\ initialized' = TRUE
    /\ sync_idx' = 0
    /\ fetch_log' = NoFetch
    /\ pc' = "sync"
    /\ UNCHANGED <<config, disc_log>>

\* run_full_sync lines 279-298: the loop body for the next source
SyncNext(h, t) ==
    /\ pc = "sync"
    /\ sync_idx < Len(sources_to_sync)
    /\ LET id == sources_to_sync[sync_idx + 1] IN
         /\ results' = SyncIteration(results, id, h, t)
         /\ fetch_log' = [fetch_log EXCEPT ![id] =
                            [called |-> TRUE,
                             exc |-> IF h.kind = "raise" THEN h.exc ELSE t.exc]]
    /\ sync_idx' = sync_idx + 1
    /\ UNCHANGED <<config, connectors, initialized, pc, source_filter,
                   sources_to_sync, init_log, did_init, auth_log, init_failed, cycles,
                   disc_log>>

\* run_full_sync lines 300-307: completed_at is set and the record returned
RunFullSyncReturn ==
    /\ pc = "sync"
    /\ sync_idx = Len(sources_to_sync)
    /\ results' = [results EXCEPT !.completed = TRUE]
    /\ pc' = "done"
    /\ UNCHANGED <<config, connectors, initialized, source_filter,
                   sources_to_sync, sync_idx, init_log, did_init, fetch_log,
                   auth_log, init_failed, cycles, disc_log>>

\* what connector.disconnect() does for each held connector
DisconnectChoices ==
    { o \in [Constructible -> {"ok", "raise"}] :
        \A s \in Constructible : s \notin Range(connectors) => o[s] = "ok" }

\* disconnect_all is called between cycles
DisconnectAll(out) ==
    /\ pc \in {"idle", "done"}
    /\ disc_log.calls < MaxDisconnects
    /\ LET r == disconnect_all(connectors, out) IN
         /\ connectors' = r.connectors
         /\ initialized' = r.initialized
         /\ disc_log' = [calls |-> disc_log.calls + 1, held |-> connectors,
                         attempts |-> r.attempts,
                         raised |-> {s \in Range(connectors) : out[s] = "raise"}]
    /\ UNCHANGED <<config, pc, results, source_filter, sources_to_sync, sync_idx,
                   init_log, did_init, fetch_log, auth_log, init_failed, cycles>>

\* Outcomes of authenticate() for the sources this cycle initializes
AuthChoices ==
    { a \in [Constructible -> AuthOutcomes] :
        \A s \in Constructible :
            (\/ initialized
             \/ s \notin EnabledSet(config)
             \/ (s = CryptoId /\ ~config.exchanges)) => a[s] = "ok" }

\* get_transactions is only called when get_holdings returned
FetchChoices ==
    { p \in [h : FetchOutcomes, t : FetchOutcomes \cup {NotCalled}] :
        (p.h.kind = "raise") <=> (p.t = NotCalled) }

OrchNext ==
    \/ \E f \in Filters, auth \in AuthChoices : RunFullSyncBegin(f, auth)
    \/ \E p \in FetchChoices : SyncNext(p.h, p.t)
    \/ RunFullSyncReturn

\* one call of _sync_source on a connector whose fetches do p.h and p.t
SyncArgs == {<<[source_id |-> id, h |-> p.h, t |-> p.t]>> : id \in SourceIds, p \in FetchChoices}

\* the orchestrator when another component is being exercised
OrchIdle == OrchStart({[crypto |-> FALSE, exchanges |-> FALSE,
                        brokers |-> {}, providers |-> {}]})

-----------------------------------------------------------------------------
(* RateLimiter (connectors/utils.py)                                       *)

Window   == 60       \* the sliding window of wait(), in seconds
NoneTime == 0 - 1    \* last_call_time = None

Max(a, b) == IF a >= b THEN a ELSE b
Min(a, b) == IF a <= b THEN a ELSE b

\* calls_per_second is a rational num/den; 1.0 / calls_per_second = den/num
\* and 60.0 / calls_per_minute are exact for the configurations drawn
RLConfigs ==
    { c \in [cpm : 1..MaxCpm, cps : {[num |-> 1, den |-> 1], [num |-> 1, den |-> 40]}] :
        60 % c.cpm = 0 }

\* variant: the two budgets are combined with min instead of max
MinInterval_Min(cpm, cps) == Min(cps.den \div cps.num, 60 \div cpm)

\* __init__: self.min_interval
MinInterval(cpm, cps) == Max(cps.den \div cps.num, 60 \div cpm)

\* __init__
RateLimiter(cpm, cps) ==
    [calls_per_minute |-> cpm, min_interval |-> MinInterval(cpm, cps),
     last_call_time |-> NoneTime, call_times |-> <<>>]

\* `if self.last_call_time:` is false for None and for 0.0
Truthy(t) == t # NoneTime /\ t # 0

\* variant: the sleeps are accounted for but never taken
Wait_NoSleep(r, clock, o1, o2) ==
    LET ct == SelectSeq(r.call_times, LAMBDA t : clock - t < Window)
        minute == Len(ct) >= r.calls_per_minute /\ Window - (clock - ct[1]) > 0
        s1 == IF minute THEN Window - (clock - ct[1]) ELSE 0
        interval == Truthy(r.last_call_time) /\ clock - r.last_call_time < r.min_interval
        s2 == IF interval THEN r.min_interval - (clock - r.last_call_time) ELSE 0
    IN  [rl |-> [r EXCEPT !.last_call_time = clock, !.call_times = Append(ct, clock)],
         clock |-> clock, ret |-> s1 + s2,
         sleeps |-> (IF minute THEN 1 ELSE 0) + (IF interval THEN 1 ELSE 0),
         over |-> 0]

\* wait(): o1 and o2 are the times by which the two sleeps oversleep.
\* Yields the limiter and the clock on return, the returned total_wait and
\* the number of sleeps taken.
Wait(r, clock, o1, o2) ==
    LET now0 == clock
        ct == SelectSeq(r.call_times, LAMBDA t : now0 - t < Window)
        minute == Len(ct) >= r.calls_per_minute /\ Window - (now0 - ct[1]) > 0
        s1 == IF minute THEN Window - (now0 - ct[1]) ELSE 0
        clock1 == IF minute THEN clock + s1 + o1 ELSE clock
        now1 == IF minute THEN clock1 ELSE now0
        interval == Truthy(r.last_call_time) /\ now1 - r.last_call_time < r.min_interval
        s2 == IF interval THEN r.min_interval - (now1 - r.last_call_time) ELSE 0
        clock2 == IF interval THEN clock1 + s2 + o2 ELSE clock1
    IN  [rl |-> [r EXCEPT !.last_call_time = clock2, !.call_times = Append(ct, clock2)],
         clock |-> clock2, ret |-> s1 + s2,
         sleeps |-> (IF minute THEN 1 ELSE 0) + (IF interval THEN 1 ELSE 0),
         over |-> (IF minute THEN o1 ELSE 0) + (IF interval THEN o2 ELSE 0)]

\* variant: reset() forgets to clear last_call_time
Reset_KeepLast(r) == [r EXCEPT !.call_times = <<>>]

\* reset()
Reset(r) == [r EXCEPT !.last_call_time = NoneTime, !.call_times = <<>>]

RLStart(cfgs) ==
    /\ \E c \in cfgs : rl = RateLimiter(c.cpm, c.cps) /\ rl_cps = c.cps
    /\ rl_hist = <<>>
    /\ rl_ret = 0
    /\ rl_sleeps = 0
    /\ rl_elapsed = 0
    /\ rl_over = 0
    /\ rl_calls = 0

RLIdle == RLStart({[cpm |-> 1, cps |-> [num |-> 1, den |-> 1]]})

RLWait(o1, o2) ==
    /\ rl_calls < MaxCalls
    /\ LET w == Wait(rl, now, o1, o2) IN
         /\ w.clock <= MaxTime
         /\ rl' = w.rl
         /\ now' = w.clock
         /\ rl_ret' = w.ret
         /\ rl_sleeps' = w.sleeps
         /\ rl_over' = w.over
         /\ rl_elapsed' = w.clock - now
         /\ rl_hist' = Append(rl_hist, w.clock)
    /\ rl_calls' = rl_calls + 1
    /\ UNCHANGED rl_cps

RLReset ==
    /\ rl_hist # <<>>
    /\ rl' = Reset(rl)
    /\ rl_hist' = <<>>
    /\ UNCHANGED <<now, rl_cps, rl_ret, rl_sleeps, rl_elapsed, rl_over, rl_calls>>

TickSteps == {10, 60}

\* time passes between calls
Tick(d) ==
    /\ now + d <= MaxTime
    /\ now' = now + d

-----------------------------------------------------------------------------
(* ResponseCache (connectors/utils.py)                                     *)

\* cache keys are strings, modelled as sequences of characters
Keys     == {<<"a">>, <<"a", "b">>}
Prefixes == {<<"a">>, <<"b">>}
Values   == {"v1", "v2"}

CacheTtls  == {20, 50}          \* ttl_seconds of the constructor
NoOverride == 0 - 1             \* ttl_override = None
Overrides  == {NoOverride, 0, 10}

Absent == [present |-> FALSE, value |-> "-", expiry |-> 0]
Entry(v, e) == [present |-> TRUE, value |-> v, expiry |-> e]

\* variant: get() hands out entries that have expired
Get_Stale(c, k, clock) ==
    IF c[k].present
    THEN [cache |-> c, hit |-> TRUE, value |-> c[k].value]
    ELSE [cache |-> c, hit |-> FALSE, value |-> "-"]

\* get(): the cache afterwards and the returned value (hit = FALSE is None)
Get(c, k, clock) ==
    IF c[k].present
    THEN IF clock < c[k].expiry
         THEN [cache |-> c, hit |-> TRUE, value |-> c[k].value]
         ELSE [cache |-> [c EXCEPT ![k] = Absent], hit |-> FALSE, value |-> "-"]
    ELSE [cache |-> c, hit |-> FALSE, value |-> "-"]

\* set(): `if ttl_override` is false for None and for 0
Set(c, ttl, k, v, o, clock) ==
    LET t == IF o # NoOverride /\ o # 0 THEN o ELSE ttl
    IN  [c EXCEPT ![k] = Entry(v, clock + t)]

\* str.startswith
StartsWith(k, p) == Len(p) <= Len(k) /\ SubSeq(k, 1, Len(p)) = p

\* variant: stats() counts an entry as expired only after its expiry
Stats_StrictExpiry(c, clock) ==
    LET entries == {k \in Keys : c[k].present}
        expired == {k \in entries : c[k].expiry < clock}
    IN  [entries |-> Cardinality(entries), expired |-> Cardinality(expired),
         valid |-> Cardinality(entries) - Cardinality(expired)]

\* stats(), lines 223-238
Stats(c, clock) ==
    LET entries == {k \in Keys : c[k].present}
        expired == {k \in entries : c[k].expiry <= clock}
    IN  [entries |-> Cardinality(entries), expired |-> Cardinality(expired),
         valid |-> Cardinality(entries) - Cardinality(expired)]

\* invalidate(), lines 168-181: the cache afterwards and the returned bool
invalidate(c, k) ==
    IF c[k].present
    THEN [cache |-> [c EXCEPT ![k] = Absent], ret |-> TRUE]
    ELSE [cache |-> c, ret |-> FALSE]

\* invalidate_prefix(), lines 183-196: the cache afterwards and the count
invalidate_prefix(c, p) ==
    LET keys_to_remove == {k \in Keys : c[k].present /\ StartsWith(k, p)}
    IN  [cache |-> [k \in Keys |-> IF k \in keys_to_remove THEN Absent ELSE c[k]],
         ret |-> Cardinality(keys_to_remove)]

\* clear(), lines 198-207
clear(c) ==
    [cache |-> [k \in Keys |-> Absent],
     ret |-> Cardinality({k \in Keys : c[k].present})]

NoStats == [entries |-> 0, expired |-> 0, valid |-> 0]

\* the last call: get and invalidate answer in `hit`, invalidate_prefix and
\* clear in `n`, stats in `st`
NoOp  == [op |-> "-", key |-> <<>>, hit |-> FALSE, value |-> "-", n |-> 0, st |-> NoStats]
NoSet == [live |-> FALSE, at |-> 0, override |-> NoOverride, value |-> "-"]

CacheStart(ttls) ==
    /\ cache_ttl \in ttls
    /\ cache = [k \in Keys |-> Absent]
    /\ c_last = NoOp
    /\ c_set = [k \in Keys |-> NoSet]

CacheIdle == CacheStart({300})

CacheSet(k, v, o) ==
    /\ cache' = Set(cache, cache_ttl, k, v, o, now)
    /\ c_set' = [c_set EXCEPT ![k] = [live |-> TRUE, at |-> now, override |-> o, value |-> v]]
    /\ c_last' = NoOp
    /\ UNCHANGED <<now, cache_ttl>>

CacheGet(k) ==
    /\ LET g == Get(cache, k, now) IN
         /\ cache' = g.cache
         /\ c_last' = [NoOp EXCEPT !.op = "get", !.key = k, !.hit = g.hit, !.value = g.value]
    /\ UNCHANGED <<now, cache_ttl, c_set>>

\* time passes between cache operations
CacheTick(d) ==
    /\ now + d <= MaxCacheTime
    /\ Tick(d)
    /\ c_last' = NoOp
    /\ UNCHANGED <<cache_ttl, cache, c_set>>

\* invalidate()
CacheInvalidate(k) ==
    /\ LET r == invalidate(cache, k) IN
         /\ cache' = r.cache
         /\ c_last' = [NoOp EXCEPT !.op = "invalidate", !.key = k, !.hit = r.ret]
    /\ c_set' = [c_set EXCEPT ![k] = NoSet]
    /\ UNCHANGED <<now, cache_ttl>>

\* invalidate_prefix()
CacheInvalidatePrefix(p) ==
    /\ LET r == invalidate_prefix(cache, p) IN
         /\ cache' = r.cache
         /\ c_last' = [NoOp EXCEPT !.op = "invalidate_prefix", !.key = p, !.n = r.ret]
    /\ c_set' = [k \in Keys |-> IF StartsWith(k, p) THEN NoSet ELSE c_set[k]]
    /\ UNCHANGED <<now, cache_ttl>>

\* clear()
CacheClear ==
    /\ LET r == clear(cache) IN
         /\ cache' = r.cache
         /\ c_last' = [NoOp EXCEPT !.op = "clear", !.n = r.ret]
    /\ c_set' = [k \in Keys |-> NoSet]
    /\ UNCHANGED <<now, cache_ttl>>

\* stats(): reads the dict and the clock, writes nothing
CacheStats ==
    /\ c_last' = [NoOp EXCEPT !.op = "stats", !.st = Stats(cache, now)]
    /\ UNCHANGED <<now, cache_ttl, cache, c_set>>

-----------------------------------------------------------------------------
(* retry_with_backoff (connectors/utils.py)                                *)

ErrTypes == {"RateLimitError", "ValueError"}
NoErr    == "-"

\* what an invocation of the wrapped function can return
ReturnValues == {"value", "None"}

\* an entry of rt_trace
Ev(e, a) == [ev |-> e, arg |-> a]

RetryConfigs ==
    [max_retries : 0..MaxRetries, initial_delay : {1, 5}, max_delay : {4},
     exponential_base : {1, 2},
     exceptions : {{"RateLimitError"}, {"RateLimitError", "ValueError"}},
     on_retry : BOOLEAN]

\* the wrapped function raises (or returns) rt_script[i] on its i-th
\* invocation and returns "value" once the script is used up
Scripts == UNION {[1..n -> ErrTypes] : n \in 0..MaxFails}

\* variant: the loop runs max_retries times
Attempts_OffByOne(R) == R

\* range(max_retries + 1)
Attempts(R) == R + 1

\* variant: every exception is caught
Catches_All(cfg, e) == TRUE

\* `except exceptions as e`
Catches(cfg, e) == e \in cfg.exceptions

\* variant: the retry branch is taken after the last attempt too
MoreRetries_Always(cfg, attempt) == TRUE

\* `if attempt < max_retries`
MoreRetries(cfg, attempt) == attempt < cfg.max_retries

RetryStart(cfgs, scripts) ==
    /\ rt_cfg \in cfgs
    /\ rt_script \in scripts
    /\ rt_pc = "ready"
    /\ rt_attempt = 0
    /\ rt_delay = 0
    /\ rt_last = NoErr
    /\ rt_calls = 0
    /\ rt_sleeps = <<>>
    /\ rt_observed = <<>>
    /\ rt_trace = <<>>
    /\ rt_result = "-"

RetryIdle ==
    RetryStart({[max_retries |-> 0, initial_delay |-> 1, max_delay |-> 4,
                 exponential_base |-> 1, exceptions |-> {"RateLimitError"},
                 on_retry |-> FALSE]}, {<<>>})

\* wrapper is entered (lines 274-275)
RetryCall ==
    /\ rt_pc = "ready"
    /\ rt_pc' = "loop"
    /\ rt_attempt' = 0
    /\ rt_delay' = rt_cfg.initial_delay
    /\ rt_last' = NoErr
    /\ UNCHANGED <<rt_cfg, rt_script, rt_calls, rt_sleeps, rt_observed,
                   rt_trace, rt_result>>

\* one iteration of the for loop (lines 277-295)
RetryAttempt ==
    /\ rt_pc = "loop"
    /\ rt_attempt < Attempts(rt_cfg.max_retries)
    /\ rt_calls' = rt_calls + 1
    /\ LET outcome == IF rt_calls + 1 <= Len(rt_script)
                      THEN rt_script[rt_calls + 1] ELSE "value"
           called  == Append(rt_trace, Ev("call", rt_calls + 1))
       IN  IF outcome \in ReturnValues
           THEN /\ rt_pc' = "returned"
                /\ rt_result' = outcome
                /\ rt_trace' = called
                /\ UNCHANGED <<rt_attempt, rt_delay, rt_last, rt_sleeps, rt_observed>>
           ELSE IF ~Catches(rt_cfg, outcome)
           THEN /\ rt_pc' = "raised"
                /\ rt_result' = outcome
                /\ rt_trace' = called
                /\ UNCHANGED <<rt_attempt, rt_delay, rt_last, rt_sleeps, rt_observed>>
           ELSE /\ rt_last' = outcome
                /\ rt_attempt' = rt_attempt + 1
                /\ IF MoreRetries(rt_cfg, rt_attempt)
                   THEN /\ rt_observed' = IF rt_cfg.on_retry
                                          THEN Append(rt_observed, rt_attempt + 1)
                                          ELSE rt_observed
                        /\ rt_sleeps' = Append(rt_sleeps, rt_delay)
                        /\ rt_trace' =
                               (IF rt_cfg.on_retry
                                THEN Append(called, Ev("on_retry", rt_attempt + 1))
                                ELSE called) \o <<Ev("sleep", rt_delay)>>
                        /\ rt_delay' = Min(rt_delay * rt_cfg.exponential_base,
                                           rt_cfg.max_delay)
                   ELSE /\ rt_trace' = called
                        /\ UNCHANGED <<rt_observed, rt_sleeps, rt_delay>>
                /\ UNCHANGED <<rt_pc, rt_result>>
    /\ UNCHANGED <<rt_cfg, rt_script>>

\* after the loop (lines 297-298): raise last_exception if there is one
RetryExhausted ==
    /\ rt_pc = "loop"
    /\ rt_attempt >= Attempts(rt_cfg.max_retries)
    /\ IF rt_last # NoErr
       THEN rt_pc' = "raised" /\ rt_result' = rt_last
       ELSE rt_pc' = "returned" /\ rt_result' = "None"
    /\ UNCHANGED <<rt_cfg, rt_script, rt_attempt, rt_delay, rt_last,
                   rt_calls, rt_sleeps, rt_observed, rt_trace>>

-----------------------------------------------------------------------------
(* Connector fetches decorated with retry_with_backoff                     *)
(* (ibkr_connector.py, tiingo_connector.py)                                *)

\* what one HTTP request of a fetch can do: answer 200 with data, raise a
\* requests.RequestException (timeout, connection error), answer 429 or 500
NetOutcomes == {"ok", "RequestException", "http_429", "http_500"}

FetchFns == {"ibkr._fetch_account_holdings", "ibkr._fetch_account_transactions",
             "tiingo.get_current_price", "tiingo.get_historical_prices"}

\* @retry_with_backoff(max_retries=3, exceptions=(requests.RequestException,))
\* with the defaults of the other parameters
FetchRetryConfig ==
    [max_retries |-> 3, initial_delay |-> 1, max_delay |-> 60,
     exponential_base |-> 2, exceptions |-> {"RequestException"},
     on_retry |-> FALSE]

\* IBKR: a status other than 200 returns None, a RequestException is caught
\* in the body and raised again as DataFetchError
IbkrFetchBody(net) ==
    CASE net = "ok"               -> "value"
      [] net = "RequestException" -> "DataFetchError"
      [] OTHER                    -> "None"

\* Tiingo: 429 raises RateLimitError, a RequestException is caught in the
\* body and None is returned, as for any other status
TiingoFetchBody(net) ==
    CASE net = "ok"       -> "value"
      [] net = "http_429" -> "RateLimitError"
      [] OTHER            -> "None"

FetchBody(fn, net) ==
    IF fn \in {"ibkr._fetch_account_holdings", "ibkr._fetch_account_transactions"}
    THEN IbkrFetchBody(net)
    ELSE TiingoFetchBody(net)

NetSeqs == UNION {[1..n -> NetOutcomes] : n \in 1..MaxNet}

\* what the decorated function does on each invocation, given what the
\* network does on each request
FetchScripts ==
    {[i \in 1..Len(nets) |-> FetchBody(fn, nets[i])] : fn \in FetchFns, nets \in NetSeqs}

-----------------------------------------------------------------------------
(* PluginRegistry (plugins/registry.py)                                    *)

PluginIds == {"a", "b"}

\* the PluginMetadata objects callers have built; two of them carry the
\* same id (plugins/base.py, lines 35-70)
MdPool ==
    <<[id |-> "a", version |-> "1.0.0", capabilities |-> {"HOLDINGS"},
       supported_countries |-> {"US"}, authentication_type |-> "api_key"],
      [id |-> "a", version |-> "2.0.0", capabilities |-> {"HOLDINGS", "TRANSACTIONS"},
       supported_countries |-> {"CN"}, authentication_type |-> "oauth"],
      [id |-> "b", version |-> "1.0.0", capabilities |-> {"TRANSACTIONS"},
       supported_countries |-> {"US", "CN"}, authentication_type |-> "api_key"]>>

MdRefs == 1..Len(MdPool)
NoMd   == 0          \* None, where a PluginMetadata is expected
NoObj  == 0          \* None, where a PluginRegistry is expected

\* the fields of a PluginMetadata object as they are now: a dataclass is
\* mutable, and a caller that changed it set version and capabilities
Md(m) ==
    IF m \in md_mut
    THEN [MdPool[m] EXCEPT !.version = "0.0.0", !.capabilities = {}]
    ELSE MdPool[m]

\* a PluginRegistry object between line 55 and line 56; inits counts the
\* times lines 56-57 ran on it
RawRegistry == [plugins |-> [id \in PluginIds |-> NoMd], enabled |-> {}, inits |-> 0]

\* lines 56-57: _plugins = {} and _enabled = set()
InitRegistry(o) ==
    [plugins |-> [id \in PluginIds |-> NoMd], enabled |-> {}, inits |-> o.inits + 1]

EmptyRegistry == InitRegistry(RawRegistry)

\* `plugin_id in self._plugins`
IsRegistered(o, id) == o.plugins[id] # NoMd

RegisteredIds(o) == {id \in PluginIds : IsRegistered(o, id)}

\* line 82
StorePlugin(o, m) == [o EXCEPT !.plugins[Md(m).id] = m]

\* line 99
DelPlugin(o, id) == [o EXCEPT !.plugins[id] = NoMd]

\* lines 100 and 198
DiscardEnabled(o, id) == [o EXCEPT !.enabled = @ \ {id}]

\* line 182
AddEnabled(o, id) == [o EXCEPT !.enabled = @ \cup {id}]

\* lines 65-66
ClearPlugins(o) == [o EXCEPT !.plugins = [id \in PluginIds |-> NoMd]]
ClearEnabled(o) == [o EXCEPT !.enabled = {}]

\* variant: the metadata is stored over an existing entry
register_Overwrite(o, m) ==
    [obj |-> StorePlugin(o, m), ret |-> ~IsRegistered(o, Md(m).id)]

register(o, m) ==
    IF IsRegistered(o, Md(m).id)
    THEN [obj |-> o, ret |-> FALSE]
    ELSE [obj |-> StorePlugin(o, m), ret |-> TRUE]

\* variant: the id stays in the enabled set
unregister_KeepEnabled(o, id) ==
    IF ~IsRegistered(o, id)
    THEN [obj |-> o, ret |-> FALSE]
    ELSE [obj |-> DelPlugin(o, id), ret |-> TRUE]

unregister(o, id) ==
    IF ~IsRegistered(o, id)
    THEN [obj |-> o, ret |-> FALSE]
    ELSE [obj |-> DiscardEnabled(DelPlugin(o, id), id), ret |-> TRUE]

enable(o, id) ==
    IF ~IsRegistered(o, id)
    THEN [obj |-> o, ret |-> FALSE]
    ELSE [obj |-> AddEnabled(o, id), ret |-> TRUE]

disable(o, id) ==
    IF id \notin o.enabled
    THEN [obj |-> o, ret |-> FALSE]
    ELSE [obj |-> DiscardEnabled(o, id), ret |-> TRUE]

\* the read operations; a returned list is a new list, given here as the
\* set of the references it holds
get(o, id) == o.plugins[id]

get_all(o) == {o.plugins[id] : id \in RegisteredIds(o)}

get_by_capability(o, capability) ==
    {m \in get_all(o) : capability \in Md(m).capabilities}

get_by_country(o, country_code) ==
    {m \in get_all(o) : country_code \in Md(m).supported_countries}

get_by_auth_type(o, auth_type) ==
    {m \in get_all(o) : Md(m).authentication_type = auth_type}

is_enabled(o, id) == id \in o.enabled

get_enabled(o) == {o.plugins[pid] : pid \in {q \in o.enabled : IsRegistered(o, q)}}

count(o) == Cardinality(RegisteredIds(o))

count_enabled(o) == Cardinality(o.enabled)

stats(o) ==
    [total |-> count(o), enabled |-> count_enabled(o),
     disabled |-> count(o) - count_enabled(o)]

\* variant: every construction makes a new object
NeedsInstance_Always(inst) == TRUE

\* line 54: `cls._instance is None`
NeedsInstance(inst) == inst = NoObj

\* __new__, run without interruption: the new cls._instance and heap
New(inst, heap) ==
    IF NeedsInstance(inst)
    THEN [instance |-> Len(heap) + 1, heap |-> Append(heap, EmptyRegistry)]
    ELSE [instance |-> inst, heap |-> heap]

\* reset, run without interruption
reset(inst, heap) ==
    IF inst # NoObj
    THEN [heap EXCEPT ![inst] = ClearEnabled(ClearPlugins(@))]
    ELSE heap

Threads  == {1, 2}
NoThread == 0

IdleThread ==
    [pc |-> "idle", op |-> "-", id |-> "-", m |-> NoMd, self |-> NoObj,
     ret |-> "-", clean |-> TRUE]

NoCall ==
    [op |-> "-", id |-> "-", m |-> NoMd, ret |-> FALSE, refs |-> {},
     before |-> RawRegistry]

\* the module has been imported and PluginRegistry has not been constructed
RegStart ==
    /\ reg_instance = NoObj
    /\ reg_heap = <<>>
    /\ reg_lock = NoThread
    /\ md_mut = {}
    /\ reg_self = NoObj
    /\ reg_last = NoCall
    /\ reg_refs = {}
    /\ th = [t \in Threads |-> IdleThread]
    /\ reg_true = [id \in PluginIds |-> 0]
    /\ reg_ops = 0

RegIdle == RegStart

\* ---- calls made one at a time by one caller ----

Before == IF reg_self = NoObj THEN RawRegistry ELSE reg_heap[reg_self]

threadVars == <<reg_lock, th, reg_true, reg_ops>>

\* registry = PluginRegistry()
CallConstruct ==
    /\ LET n == New(reg_instance, reg_heap) IN
         /\ reg_instance' = n.instance
         /\ reg_heap' = n.heap
         /\ reg_self' = n.instance
         /\ reg_refs' = reg_refs \cup {n.instance}
    /\ reg_last' = [NoCall EXCEPT !.op = "construct", !.before = Before]
    /\ UNCHANGED <<md_mut, threadVars>>

\* PluginRegistry.reset()
CallReset ==
    /\ reg_heap' = reset(reg_instance, reg_heap)
    /\ reg_last' = [NoCall EXCEPT !.op = "reset", !.before = Before]
    /\ UNCHANGED <<reg_instance, md_mut, reg_self, reg_refs, threadVars>>

\* a mutating method of the registry held by the caller
CallMutator(op, id, m, r) ==
    /\ reg_self # NoObj
    /\ reg_heap' = [reg_heap EXCEPT ![reg_self] = r.obj]
    /\ reg_last' = [NoCall EXCEPT !.op = op, !.id = id, !.m = m, !.ret = r.ret,
                                  !.before = Before]
    /\ UNCHANGED <<reg_instance, md_mut, reg_self, reg_refs, threadVars>>

CallRegister(m) == CallMutator("register", Md(m).id, m, register(Before, m))

CallUnregister(id) == CallMutator("unregister", id, NoMd, unregister(Before, id))

CallEnable(id) == CallMutator("enable", id, NoMd, enable(Before, id))

CallDisable(id) == CallMutator("disable", id, NoMd, disable(Before, id))

\* the list queries and the argument each is called with
Queries ==
    {[op |-> "get_all", arg |-> "-"], [op |-> "get_enabled", arg |-> "-"]}
    \cup [op : {"get_by_capability"}, arg : {"HOLDINGS", "TRANSACTIONS"}]
    \cup [op : {"get_by_country"}, arg : {"US", "CN"}]
    \cup [op : {"get_by_auth_type"}, arg : {"api_key", "oauth"}]

QueryResult(o, q) ==
    CASE q.op = "get_all"           -> get_all(o)
      [] q.op = "get_enabled"       -> get_enabled(o)
      [] q.op = "get_by_capability" -> get_by_capability(o, q.arg)
      [] q.op = "get_by_country"    -> get_by_country(o, q.arg)
      [] q.op = "get_by_auth_type"  -> get_by_auth_type(o, q.arg)

CallRead(op, id, ret, refs) ==
    /\ reg_self # NoObj
    /\ reg_last' = [NoCall EXCEPT !.op = op, !.id = id, !.ret = ret, !.refs = refs,
                                  !.before = Before]
    /\ UNCHANGED <<reg_instance, reg_heap, md_mut, reg_self, reg_refs, threadVars>>

CallGet(id) ==
    CallRead("get", id, get(Before, id) # NoMd, {get(Before, id)} \ {NoMd})

CallQuery(q) == CallRead(q.op, q.arg, FALSE, QueryResult(Before, q))

CallIsEnabled(id) == CallRead("is_enabled", id, is_enabled(Before, id), {})

\* the caller assigns to fields of a PluginMetadata a read has returned
CallerMutate(m) ==
    /\ m \in reg_last.refs
    /\ m \notin md_mut
    /\ md_mut' = md_mut \cup {m}
    /\ UNCHANGED <<reg_instance, reg_heap, reg_self, reg_last, reg_refs, threadVars>>

\* the caller empties a list a query has returned
CallerMutateList ==
    /\ reg_last.op \in {q.op : q \in Queries}
    /\ reg_last.refs # {}
    /\ reg_last' = [reg_last EXCEPT !.refs = {}]
    /\ UNCHANGED <<reg_instance, reg_heap, md_mut, reg_self, reg_refs, threadVars>>

\* ---- calls of several threads, one statement at a time ----

seqVars == <<md_mut, reg_self, reg_last>>

\* thread t moves to record r; a step that writes to the registry is noted
\* by the threads whose current or last call is reset()
Upd(t, r, writes) ==
    [u \in Threads |->
        IF u = t THEN r
        ELSE IF writes /\ th[u].op = "reset" THEN [th[u] EXCEPT !.clean = FALSE]
        ELSE th[u]]

\* thread t begins a call
Begins(t) ==
    /\ th[t].pc = "idle"
    /\ reg_ops < MaxRegOps
    /\ reg_ops' = reg_ops + 1

At(t, pcs) == th[t].pc = pcs /\ UNCHANGED reg_ops

Returns(t, v) == [th[t] EXCEPT !.pc = "idle", !.ret = v]

Goes(t, pcs) == [th[t] EXCEPT !.pc = pcs]

Calls(t, op, id, m, pcs) ==
    [th[t] EXCEPT !.pc = pcs, !.op = op, !.id = id, !.m = m, !.ret = "-", !.clean = TRUE]

\* __new__, line 53: enter `with cls._lock`
T_New(t) ==
    /\ Begins(t)
    /\ reg_lock = NoThread
    /\ reg_lock' = t
    /\ th' = Upd(t, Calls(t, "construct", "-", NoMd, "new_check"), FALSE)
    /\ UNCHANGED <<reg_instance, reg_heap, reg_refs, reg_true, seqVars>>

\* line 54
T_NewCheck(t) ==
    /\ At(t, "new_check")
    /\ th' = Upd(t, Goes(t, IF NeedsInstance(reg_instance)
                            THEN "new_create" ELSE "new_release"), FALSE)
    /\ UNCHANGED <<reg_instance, reg_heap, reg_lock, reg_refs, reg_true, seqVars>>

\* line 55
T_NewCreate(t) ==
    /\ At(t, "new_create")
    /\ reg_heap' = Append(reg_heap, RawRegistry)
    /\ reg_instance' = Len(reg_heap) + 1
    /\ th' = Upd(t, Goes(t, "new_init"), FALSE)
    /\ UNCHANGED <<reg_lock, reg_refs, reg_true, seqVars>>

\* lines 56-57
T_NewInit(t) ==
    /\ At(t, "new_init")
    /\ reg_heap' = [reg_heap EXCEPT ![reg_instance] = InitRegistry(@)]
    /\ th' = Upd(t, Goes(t, "new_release"), TRUE)
    /\ reg_true' = [id \in PluginIds |-> 0]
    /\ UNCHANGED <<reg_instance, reg_lock, reg_refs, seqVars>>

\* the with block is left
T_NewRelease(t) ==
    /\ At(t, "new_release")
    /\ reg_lock' = NoThread
    /\ th' = Upd(t, Goes(t, "new_return"), FALSE)
    /\ UNCHANGED <<reg_instance, reg_heap, reg_refs, reg_true, seqVars>>

\* line 58
T_NewReturn(t) ==
    /\ At(t, "new_return")
    /\ th' = Upd(t, [Returns(t, "object") EXCEPT !.self = reg_instance], FALSE)
    /\ reg_refs' = reg_refs \cup {reg_instance}
    /\ UNCHANGED <<reg_instance, reg_heap, reg_lock, reg_true, seqVars>>

\* reset, line 63
T_Reset(t) ==
    /\ Begins(t)
    /\ reg_lock = NoThread
    /\ reg_lock' = t
    /\ th' = Upd(t, Calls(t, "reset", "-", NoMd, "reset_check"), FALSE)
    /\ UNCHANGED <<reg_instance, reg_heap, reg_refs, reg_true, seqVars>>

\* line 64
T_ResetCheck(t) ==
    /\ At(t, "reset_check")
    /\ th' = Upd(t, Goes(t, IF reg_instance # NoObj
                            THEN "reset_plugins" ELSE "reset_release"), FALSE)
    /\ UNCHANGED <<reg_instance, reg_heap, reg_lock, reg_refs, reg_true, seqVars>>

\* line 65
T_ResetPlugins(t) ==
    /\ At(t, "reset_plugins")
    /\ reg_heap' = [reg_heap EXCEPT ![reg_instance] = ClearPlugins(@)]
    /\ reg_true' = [id \in PluginIds |-> 0]
    /\ th' = Upd(t, Goes(t, "reset_enabled"), TRUE)
    /\ UNCHANGED <<reg_instance, reg_lock, reg_refs, seqVars>>

\* line 66
T_ResetEnabled(t) ==
    /\ At(t, "reset_enabled")
    /\ reg_heap' = [reg_heap EXCEPT ![reg_instance] = ClearEnabled(@)]
    /\ th' = Upd(t, Goes(t, "reset_release"), TRUE)
    /\ UNCHANGED <<reg_instance, reg_lock, reg_refs, reg_true, seqVars>>

T_ResetRelease(t) ==
    /\ At(t, "reset_release")
    /\ reg_lock' = NoThread
    /\ th' = Upd(t, Returns(t, "None"), FALSE)
    /\ UNCHANGED <<reg_instance, reg_heap, reg_refs, reg_true, seqVars>>

Obj(t) == reg_heap[th[t].self]

\* the first statement of a method of the registry thread t holds: the
\* test, which returns False or goes on to the statement at pcs
T_Enter(t, op, id, m, refuses, pcs) ==
    /\ Begins(t)
    /\ th[t].self # NoObj
    /\ th' = Upd(t, IF refuses
                    THEN [Calls(t, op, id, m, "idle") EXCEPT !.ret = "False"]
                    ELSE Calls(t, op, id, m, pcs), FALSE)
    /\ UNCHANGED <<reg_instance, reg_heap, reg_lock, reg_refs, reg_true, seqVars>>

\* a later statement of a method: it writes object o
T_Write(t, o, r) ==
    /\ reg_heap' = [reg_heap EXCEPT ![th[t].self] = o]
    /\ th' = Upd(t, r, TRUE)
    /\ UNCHANGED <<reg_instance, reg_lock, reg_refs, seqVars>>

\* register, line 78
T_Register(t, m) ==
    T_Enter(t, "register", Md(m).id, m, IsRegistered(Obj(t), Md(m).id), "register_store")

\* lines 82-84
T_RegisterStore(t) ==
    /\ At(t, "register_store")
    /\ T_Write(t, StorePlugin(Obj(t), th[t].m), Returns(t, "True"))
    /\ reg_true' = [reg_true EXCEPT ![th[t].id] = @ + 1]

\* unregister, line 96
T_Unregister(t, id) ==
    T_Enter(t, "unregister", id, NoMd, ~IsRegistered(Obj(t), id), "unregister_del")

\* line 99: del raises KeyError when the key has gone meanwhile
T_UnregisterDel(t) ==
    /\ At(t, "unregister_del")
    /\ IF IsRegistered(Obj(t), th[t].id)
       THEN /\ T_Write(t, DelPlugin(Obj(t), th[t].id), Goes(t, "unregister_discard"))
            /\ reg_true' = [reg_true EXCEPT ![th[t].id] = 0]
       ELSE /\ th' = Upd(t, Returns(t, "KeyError"), FALSE)
            /\ UNCHANGED <<reg_instance, reg_heap, reg_lock, reg_refs, reg_true, seqVars>>

\* lines 100-102
T_UnregisterDiscard(t) ==
    /\ At(t, "unregister_discard")
    /\ T_Write(t, DiscardEnabled(Obj(t), th[t].id), Returns(t, "True"))
    /\ UNCHANGED reg_true

\* enable, line 180
T_Enable(t, id) ==
    T_Enter(t, "enable", id, NoMd, ~IsRegistered(Obj(t), id), "enable_add")

\* lines 182-184
T_EnableAdd(t) ==
    /\ At(t, "enable_add")
    /\ T_Write(t, AddEnabled(Obj(t), th[t].id), Returns(t, "True"))
    /\ UNCHANGED reg_true

\* disable, line 196
T_Disable(t, id) ==
    T_Enter(t, "disable", id, NoMd, id \notin Obj(t).enabled, "disable_discard")

\* lines 198-200
T_DisableDiscard(t) ==
    /\ At(t, "disable_discard")
    /\ T_Write(t, DiscardEnabled(Obj(t), th[t].id), Returns(t, "True"))
    /\ UNCHANGED reg_true

-----------------------------------------------------------------------------
(* PluginManager discovery (plugins/manager.py)                            *)

\* line 164
RequiredFields == {"id", "name", "version", "author", "description"}

NoManifest == [yaml |-> "-", present |-> {}, md |-> NoMd]

\* a manifest.yaml that holds a mapping with the fields `present`; md is the
\* PluginMetadata that lines 178-192 build from it
Manifest(present, m) == [yaml |-> "dict", present |-> present, md |-> m]

\* a manifest.yaml that is empty: yaml.safe_load returns None
BlankManifest == [yaml |-> "None", present |-> {}, md |-> 2]

DirEntry(name, is_dir, hidden, manifest) ==
    [name |-> name, is_dir |-> is_dir, hidden |-> hidden, manifest |-> manifest]

\* what a plugins directory can hold: a file, a directory whose name starts
\* with "_", a package without manifest, two sound packages, a package with an
\* empty manifest and one package for each missing required field
EntryPool ==
    {DirEntry(<<"README.md">>, FALSE, FALSE, NoManifest),
     DirEntry(<<"__pycache__">>, TRUE, TRUE, NoManifest),
     DirEntry(<<"no_manifest">>, TRUE, FALSE, NoManifest),
     DirEntry(<<"plugin_a">>, TRUE, FALSE, Manifest(RequiredFields, 1)),
     DirEntry(<<"plugin_b">>, TRUE, FALSE, Manifest(RequiredFields, 3)),
     DirEntry(<<"blank">>, TRUE, FALSE, BlankManifest)}
    \cup {DirEntry(<<"lacks", f>>, TRUE, FALSE, Manifest(RequiredFields \ {f}, 2)) :
            f \in RequiredFields}

\* the directories over a pool: up to n entries of different names, in any
\* order
DirectoriesOf(pool, n) ==
    {d \in UNION {[1..k -> pool] : k \in 0..n} :
        \A i, j \in 1..Len(d) : i # j => d[i].name # d[j].name}

Directories == DirectoriesOf(EntryPool, MaxEntries)

\* variant: the required fields are not checked
_load_manifest_NoCheck(e) == [raised |-> "-", md |-> e.manifest.md]

\* lines 160-198: `field not in manifest` is a TypeError when the manifest
\* is None
_load_manifest(e) ==
    IF e.manifest.yaml # "dict"
    THEN [raised |-> "TypeError", md |-> NoMd]
    ELSE IF \E f \in RequiredFields : f \notin e.manifest.present
    THEN [raised |-> "PluginValidationError", md |-> NoMd]
    ELSE [raised |-> "-", md |-> e.manifest.md]

\* line 137: `except Exception`
DiscoverCatches(exc) == exc \in {"TypeError", "PluginValidationError"}

\* self._discovered[metadata.id] = plugin_info, on an insertion-ordered dict
DictPut(disc, m) ==
    IF \E i \in 1..Len(disc) : Md(disc[i]).id = Md(m).id
    THEN [i \in 1..Len(disc) |-> IF Md(disc[i]).id = Md(m).id THEN m ELSE disc[i]]
    ELSE Append(disc, m)

\* lines 121-138: the loop over the entries from the i-th on
RECURSIVE ScanFrom(_, _, _)
ScanFrom(d, i, acc) ==
    IF i > Len(d) THEN acc
    ELSE LET e == d[i] IN
         IF ~e.is_dir \/ e.hidden \/ e.manifest = NoManifest
         THEN ScanFrom(d, i + 1, acc)
         ELSE LET r == _load_manifest(e) IN
              IF r.raised = "-"
              THEN ScanFrom(d, i + 1, [acc EXCEPT !.discovered = DictPut(@, r.md),
                                                  !.plugins = Append(@, r.md)])
              ELSE IF DiscoverCatches(r.raised)
              THEN ScanFrom(d, i + 1, acc)
              ELSE [acc EXCEPT !.raised = r.raised]

\* lines 141-142
RECURSIVE RegisterAll(_, _, _)
RegisterAll(o, ms, i) ==
    IF i > Len(ms) THEN o ELSE RegisterAll(register(o, ms[i]).obj, ms, i + 1)

\* variant: force_refresh is ignored
UseCache_IgnoreForce(disc, force_refresh) == disc # <<>>

\* line 109: `if self._discovered and not force_refresh`
UseCache(disc, force_refresh) == disc # <<>> /\ ~force_refresh

\* discover_plugins: the new _discovered, the new registry object, the
\* returned list and the exception that leaves the call
discover_plugins(disc, o, force_refresh) ==
    IF UseCache(disc, force_refresh)
    THEN [discovered |-> disc, registry |-> o, ret |-> disc, raised |-> "-"]
    ELSE IF ~mg_exists
    THEN [discovered |-> <<>>, registry |-> o, ret |-> <<>>, raised |-> "-"]
    ELSE LET sc == ScanFrom(mg_dir, 1, [discovered |-> <<>>, plugins |-> <<>>, raised |-> "-"])
         IN  IF sc.raised # "-"
             THEN [discovered |-> sc.discovered, registry |-> o, ret |-> <<>>,
                   raised |-> sc.raised]
             ELSE [discovered |-> sc.discovered,
                   registry |-> RegisterAll(o, sc.plugins, 1),
                   ret |-> sc.plugins, raised |-> "-"]

\* list_plugins, lines 207-209
list_plugins(disc, o) ==
    LET r == IF disc = <<>> THEN discover_plugins(disc, o, FALSE)
             ELSE [discovered |-> disc, registry |-> o, ret |-> <<>>, raised |-> "-"]
    IN  IF r.raised # "-" THEN r ELSE [r EXCEPT !.ret = r.discovered]

NoMgrCall == [op |-> "-", ret |-> <<>>, raised |-> "-"]

\* lines 29-32, each string as the sequence of its characters
BLOCKED_IMPORTS ==
    {<<"s", "u", "b", "p", "r", "o", "c", "e", "s", "s">>,
     <<"o", "s", ".", "s", "y", "s", "t", "e", "m">>,
     <<"e", "v", "a", "l">>,
     <<"e", "x", "e", "c">>,
     <<"c", "o", "m", "p", "i", "l", "e">>,
     <<"c", "t", "y", "p", "e", "s">>,
     <<"m", "u", "l", "t", "i", "p", "r", "o", "c", "e", "s", "s", "i", "n", "g">>,
     <<"s", "o", "c", "k", "e", "t">>,
     <<"p", "i", "c", "k", "l", "e">>}

\* `blocked in code` for strings: blocked occurs somewhere in line
In(blocked, line) ==
    \E i \in 1..(Len(line) - Len(blocked) + 1) :
        SubSeq(line, i, i + Len(blocked) - 1) = blocked

\* the text of a connector.py, as its lines: an import of a module, a call
\* of a name, or a line of a docstring or comment
Line(kind, text) == [kind |-> kind, text |-> text]

\* a connector that imports pandas and nothing else
PlainSource == <<Line("import", <<"p", "a", "n", "d", "a", "s">>)>>

\* a connector that imports subprocess and calls eval
UnsafeSource ==
    <<Line("import", <<"s", "u", "b", "p", "r", "o", "c", "e", "s", "s">>),
      Line("call", <<"e", "v", "a", "l">>)>>

\* bank_plugins/sample_bank/connector.py: its imports (lines 19-26) name
\* logging, datetime, typing, random, pandas and src.plugins.base, and line
\* 39 of the class docstring reads "- Holdings retrieval"
SampleBankSource ==
    <<Line("import", <<"r", "a", "n", "d", "o", "m">>),
      Line("import", <<"p", "a", "n", "d", "a", "s">>),
      Line("doc", <<"r", "e", "t", "r", "i", "e", "v", "a", "l">>)>>

\* lines 299-300 on the text read at line 296: some blocked string occurs in it
HoldsBlockedPattern(code) ==
    \E blocked \in BLOCKED_IMPORTS : \E i \in 1..Len(code) : In(blocked, code[i].text)

\* connector.py of a package: whether it exists, its text (and whether that
\* holds one of BLOCKED_IMPORTS), whether importing it raises, and the
\* subclasses of BankIntegrationPlugin among its names, in the order of
\* dir(module)
Connector(exists, code, import_raises, classes) ==
    [exists |-> exists, code |-> code, blocked |-> HoldsBlockedPattern(code),
     import_raises |-> import_raises,
     classes |-> classes]

NoConnector == Connector(FALSE, <<>>, FALSE, <<>>)

SourceTexts == {PlainSource, UnsafeSource, SampleBankSource}

\* a class is "concrete", or "abstract": constructing it raises TypeError
ClassLists == UNION {[1..n -> {"concrete", "abstract"}] : n \in 0..MaxClasses}

Connectors ==
    {NoConnector}
    \cup {Connector(TRUE, code, TRUE, <<>>) : code \in SourceTexts}
    \cup {Connector(TRUE, code, FALSE, cs) : code \in SourceTexts, cs \in ClassLists}

NoLoad == [id |-> "-", conn |-> NoConnector, trace |-> <<>>, ret |-> 0, raised |-> "-"]

NoPrev == [force |-> FALSE, disc |-> <<>>, registry |-> RawRegistry, dir_state |-> "unscanned"]

\* PluginManager(plugins_dir) has been constructed
MgrStart(dirs) ==
    /\ mg_exists \in BOOLEAN
    /\ mg_dir \in IF mg_exists THEN dirs ELSE {<<>>}
    /\ mg_discovered = <<>>
    /\ mg_last = NoMgrCall
    /\ mg_load = NoLoad
    /\ mg_prev = NoPrev
    /\ mg_stale = "unscanned"

MgrIdle ==
    /\ mg_exists = FALSE
    /\ mg_dir = <<>>
    /\ mg_discovered = <<>>
    /\ mg_last = NoMgrCall
    /\ mg_load = NoLoad
    /\ mg_prev = NoPrev
    /\ mg_stale = "unscanned"

\* line 93: self.registry = registry or PluginRegistry()
RegConstructed ==
    /\ reg_instance = 1
    /\ reg_heap = <<EmptyRegistry>>
    /\ reg_lock = NoThread
    /\ md_mut = {}
    /\ reg_self = NoObj
    /\ reg_last = NoCall
    /\ reg_refs = {1}
    /\ th = [t \in Threads |-> IdleThread]
    /\ reg_true = [id \in PluginIds |-> 0]
    /\ reg_ops = 0

\* what every call of the manager leaves behind
MgrEffect(force_refresh, r) ==
    /\ mg_discovered' = r.discovered
    /\ reg_heap' = [reg_heap EXCEPT ![reg_instance] = r.registry]
    /\ mg_prev' = [force |-> force_refresh, disc |-> mg_discovered,
                   registry |-> reg_heap[reg_instance], dir_state |-> mg_stale]
    /\ mg_stale' = IF UseCache(mg_discovered, force_refresh) THEN mg_stale ELSE "fresh"
    /\ UNCHANGED <<mg_exists, mg_dir>>

MgrCall(op, force_refresh, r) ==
    /\ MgrEffect(force_refresh, r)
    /\ mg_last' = [op |-> op, ret |-> r.ret, raised |-> r.raised]
    /\ mg_load' = NoLoad

MgrDiscover(force_refresh) ==
    MgrCall("discover_plugins", force_refresh,
            discover_plugins(mg_discovered, reg_heap[reg_instance], force_refresh))

MgrListPlugins ==
    MgrCall("list_plugins", FALSE, list_plugins(mg_discovered, reg_heap[reg_instance]))

\* variant: the scan of the connector source finds nothing
_validate_plugin_code_Off(conn) == FALSE

\* _validate_plugin_code, lines 295-303: TRUE when it raises
\* PluginValidationError, that is when the text of connector.py holds one of
\* BLOCKED_IMPORTS
_validate_plugin_code(conn) == HoldsBlockedPattern(conn.code)

\* _find_connector_class, lines 320-328: the position of the first subclass
\* of BankIntegrationPlugin in dir(module), 0 for None
_find_connector_class(classes) == IF classes = <<>> THEN 0 ELSE 1

\* the outcome of load_plugin
Loaded(d, trace, ret, raised) ==
    [discovered |-> d.discovered, registry |-> d.registry, trace |-> trace,
     ret |-> ret, raised |-> raised]

\* load_plugin, lines 244-283: the new _discovered and registry, the steps
\* taken on connector.py ("validate": line 259, "import": line 271,
\* "construct": line 279), the class whose instance is returned (0: no
\* instance) and the exception that leaves the call
load_plugin(disc, o, plugin_id, conn) ==
    LET d == IF disc = <<>> THEN discover_plugins(disc, o, FALSE)
             ELSE [discovered |-> disc, registry |-> o, ret |-> disc, raised |-> "-"]
    IN  IF d.raised # "-" THEN Loaded(d, <<>>, 0, d.raised)
        ELSE IF ~\E i \in 1..Len(d.discovered) : Md(d.discovered[i]).id = plugin_id
        THEN Loaded(d, <<>>, 0, "PluginLoadError")
        ELSE IF ~conn.exists
        THEN Loaded(d, <<>>, 0, "PluginLoadError")
        ELSE IF _validate_plugin_code(conn)
        THEN Loaded(d, <<"validate">>, 0, "PluginValidationError")
        ELSE IF conn.import_raises
        THEN Loaded(d, <<"validate", "import">>, 0, "PluginLoadError")
        ELSE LET k == _find_connector_class(conn.classes) IN
             IF k = 0
             THEN Loaded(d, <<"validate", "import">>, 0, "PluginLoadError")
             ELSE IF conn.classes[k] = "abstract"
             THEN Loaded(d, <<"validate", "import", "construct">>, 0, "PluginLoadError")
             ELSE Loaded(d, <<"validate", "import", "construct">>, k, "-")

MgrLoad(plugin_id, conn) ==
    LET r == load_plugin(mg_discovered, reg_heap[reg_instance], plugin_id, conn) IN
    /\ MgrEffect(FALSE, r)
    /\ mg_last' = [op |-> "load_plugin", ret |-> <<>>, raised |-> r.raised]
    /\ mg_load' = [id |-> plugin_id, conn |-> conn, trace |-> r.trace,
                   ret |-> r.ret, raised |-> r.raised]

\* the packages of a directory that changes between two scans; the two
\* plugin_a are one package before and after its manifest was rewritten
ScanPool ==
    {DirEntry(<<"no_manifest">>, TRUE, FALSE, NoManifest),
     DirEntry(<<"plugin_a">>, TRUE, FALSE, Manifest(RequiredFields, 1)),
     DirEntry(<<"plugin_a">>, TRUE, FALSE, Manifest(RequiredFields, 2)),
     DirEntry(<<"plugin_b">>, TRUE, FALSE, Manifest(RequiredFields, 3)),
     DirEntry(<<"lacks", "version">>, TRUE, FALSE, Manifest(RequiredFields \ {"version"}, 2))}

\* somebody adds, removes or rewrites packages of plugins_dir, or removes or
\* creates the directory itself; the manager is not told
MgrChangeDir(exists, dir) ==
    /\ <<exists, dir>> # <<mg_exists, mg_dir>>
    /\ mg_exists' = exists
    /\ mg_dir' = dir
    /\ mg_stale' = IF mg_stale = "unscanned" THEN "unscanned" ELSE "stale"
    /\ mg_last' = [op |-> "change_dir", ret |-> <<>>, raised |-> "-"]
    /\ UNCHANGED <<mg_discovered, mg_load, mg_prev, reg_heap>>

\* the packages a plugin is loaded from
LoadPool ==
    {DirEntry(<<"no_manifest">>, TRUE, FALSE, NoManifest),
     DirEntry(<<"plugin_a">>, TRUE, FALSE, Manifest(RequiredFields, 1)),
     DirEntry(<<"plugin_b">>, TRUE, FALSE, Manifest(RequiredFields, 3)),
     DirEntry(<<"lacks", "version">>, TRUE, FALSE, Manifest(RequiredFields \ {"version"}, 2))}

-----------------------------------------------------------------------------
(* Connectors: CCXTConnector, IBKRConnector, TiingoConnector and the       *)
(* sample bank plugin                                                      *)

Kinds == {"ccxt", "ibkr", "tiingo", "sample_bank"}

\* the keys of self.config that the connectors require, and what the dict
\* holds for a key: nothing, a falsy value ('' or None), or a value
ConfigKeys == {"api_key", "username", "password"}
KeyStates  == {"absent", "empty", "value"}

ExchangeIds   == {"binance", "kraken"}
IbkrAccounts  == {"U1", "U2"}
DemoAccounts  == {"ACC001", "ACC002"}

\* config['exchanges']: the exchanges in the order of the dict, each with
\* its 'enabled' flag
ExchangeLists ==
    {x \in UNION {[1..n -> [id : ExchangeIds, enabled : BOOLEAN]] : n \in 0..MaxExchanges} :
        \A i, j \in 1..Len(x) : i # j => x[i].id # x[j].id}

\* the configurations a connector of each kind is constructed with
ConnConfigs(kind) ==
    CASE kind = "ccxt" ->
            {[keys |-> [k \in ConfigKeys |-> "absent"], exchanges |-> x] : x \in ExchangeLists}
      [] kind = "ibkr" ->
            {[keys |-> [k \in ConfigKeys |-> "absent"], exchanges |-> <<>>]}
      [] kind = "tiingo" ->
            {[keys |-> [k \in ConfigKeys |-> IF k = "api_key" THEN s ELSE "absent"],
              exchanges |-> <<>>] : s \in KeyStates}
      [] OTHER ->
            {[keys |-> [k \in ConfigKeys |-> IF k = "username" THEN u
                                             ELSE IF k = "password" THEN p ELSE "absent"],
              exchanges |-> <<>>] : u \in KeyStates, p \in KeyStates}

\* a connector after __init__: _authenticated, _session or _session_token
\* (set or None), accounts / exchanges / _accounts, _rate_limiters, and the
\* keys the response cache holds
NewConnector(kind, cfg) ==
    [kind |-> kind, config |-> cfg, authenticated |-> FALSE, session |-> FALSE,
     accounts |-> {}, limiters |-> {}, cache |-> {}]

\* `not self.config[k]`
Falsy(cfg, k) == cfg.keys[k] # "value"

\* what a call did: the value or the exception, the network calls it made,
\* and the accounts (exchanges) whose fetch gave rows, failed, or reported
\* no position
Outcome(c, ok, h, raised, net, good, failed, zero) ==
    [cn |-> c, ok |-> ok, ret |-> h, raised |-> raised, net |-> net,
     good |-> good, failed |-> failed, zero |-> zero, listed |-> <<>>]

Table(n) == [kind |-> "rows", n |-> n, exc |-> NoExc]
ReturnsNone == [kind |-> "none", n |-> 0, exc |-> NoExc]
Raises(type, msg) == [kind |-> "raise", n |-> 0, exc |-> [type |-> type, msg |-> msg]]

\* ---- authenticate

\* what exchange.fetch_balance() does in _authenticate_exchange
CcxtAuthOuts == [ExchangeIds -> {"ok", "AuthenticationError", "NetworkError"}]

\* variant: every enabled exchange has to authenticate
CombinedSuccess_All(successful, enabled) == successful = enabled

\* line 189, `len(successful) > 0`, which is also what lines 191-197 return
CombinedSuccess(successful, enabled) == successful # {}

\* CCXTConnector.authenticate, lines 164-197
CcxtAuthenticate(c, out) ==
    LET exs == c.config.exchanges
        enabled == {exs[i].id : i \in {j \in 1..Len(exs) : exs[j].enabled}}
        successful == {e \in enabled : out[e] = "ok"}
    IN  IF exs = <<>> \/ enabled = {}
        THEN Outcome(c, FALSE, NotCalled, "-", 0, {}, {}, {})
        ELSE Outcome([c EXCEPT !.accounts = @ \cup successful,
                               !.limiters = @ \cup successful,
                               !.authenticated = CombinedSuccess(successful, enabled)],
                     CombinedSuccess(successful, enabled), NotCalled, "-", Cardinality(enabled),
                     successful, enabled \ successful, {})

\* what the gateway answers to IBKRConnector.authenticate
IbkrAuthOuts ==
    {[status |-> s, accounts |-> {}] :
        s \in {"status_not_200", "gateway_not_authenticated", "accounts_not_200",
               "RequestException"}}
    \cup {[status |-> "ok", accounts |-> a] : a \in SUBSET IbkrAccounts}

\* IBKRConnector.authenticate, lines 123-175
IbkrAuthenticate(c, out) ==
    LET s == [c EXCEPT !.session = TRUE] IN
    IF out.status \in {"status_not_200", "gateway_not_authenticated", "RequestException"}
    THEN Outcome(s, FALSE, NotCalled, "-", 1, {}, {}, {})
    ELSE IF out.status = "accounts_not_200"
    THEN Outcome(s, FALSE, NotCalled, "-", 2, {}, {}, {})
    ELSE IF out.accounts = {}
    THEN Outcome([s EXCEPT !.accounts = {}], FALSE, NotCalled, "-", 2, {}, {}, {})
    ELSE Outcome([s EXCEPT !.accounts = out.accounts, !.authenticated = TRUE],
                 TRUE, NotCalled, "-", 2, out.accounts, {}, {})

\* what the API answers to TiingoConnector.authenticate
TiingoAuthOuts == {"200", "401", "500", "RequestException"}

\* TiingoConnector.authenticate, lines 104-128; self.api_key is
\* config.get('api_key')
TiingoAuthenticate(c, out) ==
    IF Falsy(c.config, "api_key")
    THEN Outcome(c, FALSE, NotCalled, "-", 0, {}, {}, {})
    ELSE IF out = "200"
    THEN Outcome([c EXCEPT !.session = TRUE, !.authenticated = TRUE],
                 TRUE, NotCalled, "-", 1, {}, {}, {})
    ELSE Outcome([c EXCEPT !.session = TRUE], FALSE, NotCalled, "-", 1, {}, {}, {})

\* BankIntegrationPlugin.validate_config, plugins/base.py lines 166-171,
\* with required_fields = ["username", "password"]
validate_config(c) == {k \in {"username", "password"} : Falsy(c.config, k)}

\* SampleBankPlugin.authenticate, lines 100-142
SampleAuthenticate(c) ==
    IF validate_config(c) # {}
    THEN Outcome(c, FALSE, NotCalled, "-", 0, {}, {}, {})
    ELSE Outcome([c EXCEPT !.session = TRUE, !.authenticated = TRUE,
                           !.accounts = DemoAccounts],
                 TRUE, NotCalled, "-", 0, DemoAccounts, {}, {})

AuthOuts(kind) ==
    CASE kind = "ccxt" -> CcxtAuthOuts
      [] kind = "ibkr" -> IbkrAuthOuts
      [] kind = "tiingo" -> TiingoAuthOuts
      [] OTHER -> {"-"}

authenticate(c, out) ==
    CASE c.kind = "ccxt" -> CcxtAuthenticate(c, out)
      [] c.kind = "ibkr" -> IbkrAuthenticate(c, out)
      [] c.kind = "tiingo" -> TiingoAuthenticate(c, out)
      [] OTHER -> SampleAuthenticate(c)

\* ---- get_holdings

\* what the fetch of one account or exchange does: "cached" (the response
\* cache holds it), "rows", "zero" (no position), or a failure
FetchFailures == {"RateLimitExceeded", "NetworkError", "not_200"}
AccountOuts == {"cached", "rows", "zero"} \cup FetchFailures

\* the loop over the accounts (exchanges) of get_holdings: CCXTConnector
\* lines 276-298 with _fetch_exchange_holdings, IBKRConnector lines 195-206
\* with _fetch_account_holdings.  A failure of one fetch is logged and the
\* loop goes on.
FetchAll(c, out) ==
    LET good   == {a \in c.accounts : out[a] \in {"cached", "rows"}}
        failed == {a \in c.accounts : out[a] \in FetchFailures}
        zero   == {a \in c.accounts : out[a] = "zero"}
    IN  Outcome([c EXCEPT !.cache = @ \cup {a \in c.accounts : out[a] = "rows"}],
                TRUE, Table(Cardinality(good)), "-",
                Cardinality({a \in c.accounts : out[a] # "cached"}),
                good, failed, zero)

NotAuthenticated(c) ==
    Outcome(c, FALSE, Raises("DataFetchError", "not authenticated"), "DataFetchError",
            0, {}, {}, {})

\* CCXTConnector.get_holdings, lines 273-298
CcxtGetHoldings(c, out) ==
    IF ~c.authenticated THEN NotAuthenticated(c) ELSE FetchAll(c, out)

\* IBKRConnector.get_holdings, lines 192-206
IbkrGetHoldings(c, out) ==
    IF ~c.authenticated THEN NotAuthenticated(c) ELSE FetchAll(c, out)

\* TiingoConnector.get_holdings, lines 130-132
TiingoGetHoldings(c) == Outcome(c, TRUE, ReturnsNone, "-", 0, {}, {}, {})

\* SampleBankPlugin.get_holdings, lines 156-188
SampleGetHoldings(c) ==
    IF ~c.authenticated
    THEN Outcome(c, TRUE, ReturnsNone, "-", 0, {}, {}, {})
    ELSE Outcome(c, TRUE, Table(Cardinality(c.accounts)), "-", 0, c.accounts, {}, {})

\* the outcomes that can happen on connector c: a cached answer needs an
\* entry of the cache
HoldingsOuts(c) ==
    IF c.kind \in {"ccxt", "ibkr"}
    THEN {o \in [ExchangeIds \cup IbkrAccounts -> AccountOuts] :
            /\ \A a \in c.accounts : o[a] = "cached" => a \in c.cache
            /\ \A a \in (ExchangeIds \cup IbkrAccounts) \ c.accounts : o[a] = "zero"}
    ELSE {[a \in ExchangeIds \cup IbkrAccounts |-> "zero"]}

get_holdings(c, out) ==
    CASE c.kind = "ccxt" -> CcxtGetHoldings(c, out)
      [] c.kind = "ibkr" -> IbkrGetHoldings(c, out)
      [] c.kind = "tiingo" -> TiingoGetHoldings(c)
      [] OTHER -> SampleGetHoldings(c)

\* ---- disconnect

\* variant: the response cache is left as it is
disconnect_KeepCache(c) ==
    [c EXCEPT !.session = FALSE, !.accounts = {}, !.limiters = {}, !.authenticated = FALSE]

\* disconnect: CCXTConnector lines 553-558, IBKRConnector lines 402-408,
\* TiingoConnector lines 426-431, SampleBankPlugin lines 333-337
disconnect(c) ==
    CASE c.kind = "ccxt" ->
            [c EXCEPT !.accounts = {}, !.limiters = {}, !.cache = {}, !.authenticated = FALSE]
      [] c.kind = "ibkr" ->
            [c EXCEPT !.session = FALSE, !.accounts = {}, !.authenticated = FALSE, !.cache = {}]
      [] c.kind = "tiingo" ->
            [c EXCEPT !.session = FALSE, !.authenticated = FALSE, !.cache = {}]
      [] OTHER ->
            [c EXCEPT !.session = FALSE, !.accounts = {}, !.authenticated = FALSE]

\* ---- _validate_config

\* variant: only the first missing key is collected
Missing_FirstOnly(cfg, required_keys) ==
    LET m == SelectSeq(required_keys, LAMBDA k : Falsy(cfg, k))
    IN  IF m = <<>> THEN <<>> ELSE <<m[1]>>

\* base_connector.py line 317: the keys that are not in the config or map
\* to a falsy value, in the order of required_keys
Missing(cfg, required_keys) == SelectSeq(required_keys, LAMBDA k : Falsy(cfg, k))

RequiredKeyLists == UNION {[1..n -> ConfigKeys] : n \in 0..MaxRequired}

\* BaseConnector._validate_config, lines 317-319
_validate_config(c, required_keys) ==
    LET missing == Missing(c.config, required_keys) IN
    [Outcome(c, TRUE, NotCalled, IF missing # <<>> THEN "ConfigurationError" ELSE "-",
             0, {}, {}, {}) EXCEPT !.listed = missing]

\* ---- the connector as a state machine

NoConnCall ==
    [op |-> "-", prev_op |-> "-", prev_loaded |-> FALSE, prev_ok |-> FALSE, ok |-> FALSE, ret |-> NotCalled, raised |-> "-",
     net |-> 0, good |-> {}, failed |-> {}, zero |-> {}, args |-> <<>>, listed |-> <<>>]

IdleConnector == NewConnector("tiingo", [keys |-> [k \in ConfigKeys |-> "absent"], exchanges |-> <<>>])

ConnStart ==
    /\ \E kind \in Kinds : cn \in {NewConnector(kind, cfg) : cfg \in ConnConfigs(kind)}
    /\ cn_before = cn
    /\ cn_last = NoConnCall
    /\ cn_ops = 0

ConnIdle ==
    /\ cn = IdleConnector
    /\ cn_before = cn
    /\ cn_last = NoConnCall
    /\ cn_ops = 0

ConnCall(op, args, r) ==
    /\ cn_ops < MaxConnOps
    /\ cn_ops' = cn_ops + 1
    /\ cn' = r.cn
    /\ cn_before' = cn
    /\ cn_last' = [op |-> op, prev_op |-> cn_last.op,
                   prev_loaded |-> (cn_before.authenticated /\ cn_before.cache # {}),
                   prev_ok |-> cn_last.ok,
                   ok |-> r.ok, ret |-> r.ret,
                   raised |-> r.raised, net |-> r.net, good |-> r.good,
                   failed |-> r.failed, zero |-> r.zero, args |-> args,
                   listed |-> r.listed]

ConnAuthenticate(out) == ConnCall("authenticate", <<>>, authenticate(cn, out))

ConnGetHoldings(out) == ConnCall("get_holdings", <<>>, get_holdings(cn, out))

ConnDisconnect ==
    ConnCall("disconnect", <<>>, Outcome(disconnect(cn), TRUE, NotCalled, "-", 0, {}, {}, {}))

ConnValidateConfig(required_keys) ==
    ConnCall("_validate_config", required_keys, _validate_config(cn, required_keys))

-----------------------------------------------------------------------------
(* Functions without state (connectors/utils.py, import_orchestrator.py)   *)

FnIdle ==
    /\ fn_name = "-"
    /\ fn_in = <<>>
    /\ fn_out = <<>>

\* the arguments are drawn, nothing is applied yet
FnStart(inputs) ==
    /\ fn_name = "-"
    /\ fn_in \in inputs
    /\ fn_out = <<>>

\* ---- generate_source_id

NoAmount == 0 - 1       \* amount = None

\* amounts in units of 0.0000001: 0, 0.0000004, 0.0000006 and 0.0000014
Amounts == {NoAmount, 0, 4, 6, 14}

\* f"{amount:.6f}": the amount rounded to 6 decimals, in units of 0.000001
\* (no amount of Amounts lies half-way)
Format6(amount) == ToString((amount + 5) \div 10)

\* "None" is None; '' is the empty string
SourceIdArgs ==
    [source : {"binance"}, transaction_id : {"None", "", "t1"},
     date : {"None", "d1"}, symbol : {"None", "BTC"}, amount : Amounts]

\* generate_source_id, lines 345-359: f"{source}_{transaction_id}", or the
\* source and the digest of the components joined with "|".  The digest is
\* taken to be free of collisions: it is modelled by the components.
generate_source_id(a) ==
    IF a.transaction_id \notin {"None", ""}
    THEN <<a.source, "_", a.transaction_id>>
    ELSE <<a.source, "_", "sha256", a.source>>
         \o (IF a.date # "None" THEN <<a.date>> ELSE <<>>)
         \o (IF a.symbol \notin {"None", ""} THEN <<a.symbol>> ELSE <<>>)
         \o (IF a.amount # NoAmount THEN <<Format6(a.amount)>> ELSE <<>>)

\* two calls of generate_source_id
GenerateSourceIds ==
    /\ fn_name = "-"
    /\ fn_name' = "generate_source_id"
    /\ fn_out' = <<generate_source_id(fn_in[1]), generate_source_id(fn_in[2])>>
    /\ UNCHANGED fn_in

\* ---- transaction rows

\* base_connector.py, lines 118-129: the keys of TRANSACTION_TYPES
TRANSACTION_TYPES ==
    {"Buy", "Sell", "Dividend", "Interest", "Deposit", "Withdrawal", "Transfer",
     "Fee", "Split", "Merger"}

\* ibkr_connector.py, lines 77-88: the keys of TRANSACTION_TYPE_MAP
TypeMapKeys == {"BUY", "SELL", "DIV", "INT", "DEP", "WITH", "FEE", "SPLIT", "MERGER", "TRANSFER"}

\* TRANSACTION_TYPE_MAP[k]
TRANSACTION_TYPE_MAP(k) ==
    CASE k = "BUY" -> "Buy"           [] k = "SELL" -> "Sell"
      [] k = "DIV" -> "Dividend"      [] k = "INT" -> "Interest"
      [] k = "DEP" -> "Deposit"       [] k = "WITH" -> "Withdrawal"
      [] k = "FEE" -> "Fee"           [] k = "SPLIT" -> "Split"
      [] k = "MERGER" -> "Merger"     [] OTHER -> "Transfer"

\* what a source reports as the side of a trade; "absent": the key is missing
Sides == {"buy", "BUY", "sell", "S", "absent"}

\* str.upper() on the sides
Upper(side) ==
    CASE side = "buy" -> "BUY"
      [] side = "sell" -> "SELL"
      [] OTHER -> side

\* a trade as the source reports it; id "absent": the source gave no id
RawTrades ==
    [id : {"absent", "x1"}, side : Sides, date : {"d1"}, symbol : {"BTC"}, amount : {0, 20}]

TradeLists == UNION {[1..n -> RawTrades] : n \in 0..MaxTrades}

Row(date, symbol, type, amount, sid) ==
    [date |-> date, symbol |-> symbol, transaction_type |-> type, amount |-> amount,
     source_id |-> sid]

\* ibkr_connector.py, lines 329-332:
\* TRANSACTION_TYPE_MAP.get(trade.get('side', '').upper(), trade.get('side', 'Unknown'))
IbkrTransType(side) ==
    LET k == IF side = "absent" THEN "" ELSE Upper(side)
    IN  IF k \in TypeMapKeys THEN TRANSACTION_TYPE_MAP(k)
        ELSE IF side = "absent" THEN "Unknown" ELSE side

\* ibkr_connector.py, lines 334-346: f"ibkr_{trade.get('execution_id', '')}"
IbkrTransactionRow(trade) ==
    Row(trade.date, trade.symbol, IbkrTransType(trade.side), trade.amount,
        <<"ibkr", "_", IF trade.id = "absent" THEN "" ELSE trade.id>>)

\* ccxt_connector.py, line 448: 'Buy' if trade['side'] == 'buy' else 'Sell'
CcxtTransType(side) == IF side = "buy" THEN "Buy" ELSE "Sell"

\* ccxt_connector.py, lines 442-456: f"{exchange_id}_{trade.get('id', '')}"
CcxtTransactionRow(exchange_id, trade) ==
    Row(trade.date, trade.symbol, CcxtTransType(trade.side), trade.amount,
        <<exchange_id, "_", IF trade.id = "absent" THEN "" ELSE trade.id>>)

\* a connector whose table has no source_id column
PlainTransactionRow(trade) ==
    Row(trade.date, trade.symbol, "Buy", trade.amount, <<>>)

TransactionKinds == {"ccxt", "ibkr", "plain"}

\* get_transactions of an authenticated connector with one account or
\* exchange: the table, its rows in the order of the trades.  In the CCXT
\* connector trade['side'] of a trade without side raises KeyError, which
\* get_transactions catches (lines 409-417): that exchange gives no row.
get_transactions(kind, trades) ==
    CASE kind = "ccxt" ->
            [has_source_id |-> TRUE,
             rows |-> IF \E i \in 1..Len(trades) : trades[i].side = "absent" THEN <<>>
                      ELSE [i \in 1..Len(trades) |-> CcxtTransactionRow("binance", trades[i])]]
      [] kind = "ibkr" ->
            [has_source_id |-> TRUE,
             rows |-> [i \in 1..Len(trades) |-> IbkrTransactionRow(trades[i])]]
      [] OTHER ->
            [has_source_id |-> FALSE,
             rows |-> [i \in 1..Len(trades) |-> PlainTransactionRow(trades[i])]]

\* the id derived from a row
Derived(source_id, row) ==
    generate_source_id([source |-> source_id, transaction_id |-> "None",
                        date |-> row.date, symbol |-> row.symbol, amount |-> row.amount])

\* _process_transactions, lines 386-396: the source_id column is filled
\* only when the table has none
_process_transactions(table, source_id) ==
    IF ~table.has_source_id
    THEN [has_source_id |-> TRUE,
          rows |-> [i \in 1..Len(table.rows) |->
                      [table.rows[i] EXCEPT !.source_id = Derived(source_id, table.rows[i])]]]
    ELSE table

\* _sync_source, lines 332-349, for the transactions: fetch, then process
\* when there are rows
SyncTransactions ==
    /\ fn_name = "-"
    /\ fn_name' = "_process_transactions"
    /\ LET t == get_transactions(fn_in.kind, fn_in.trades) IN
         fn_out' = IF t.rows # <<>> THEN _process_transactions(t, fn_in.kind) ELSE t
    /\ UNCHANGED fn_in

-----------------------------------------------------------------------------
(* Specifications                                                          *)

OrchInit == OrchStart(Configs) /\ now = StartTime /\ FnIdle /\ ConnIdle /\ RLIdle /\ CacheIdle /\ RetryIdle /\ RegIdle /\ MgrIdle

SpecOrch == OrchInit /\ [][OrchNext /\ UNCHANGED <<now, rlVars, cacheVars, retryVars, regVars, mgrVars, connVars, callVars>>]_vars

RLInit == OrchIdle /\ now = StartTime /\ FnIdle /\ ConnIdle /\ RLStart(RLConfigs) /\ CacheIdle /\ RetryIdle /\ RegIdle /\ MgrIdle

RLNext ==
    \/ \E o1, o2 \in 0..MaxOver : RLWait(o1, o2)
    \/ RLReset
    \/ \E d \in TickSteps : Tick(d) /\ UNCHANGED rlVars

SpecRL == RLInit /\ [][RLNext /\ UNCHANGED <<orchVars, cacheVars, retryVars, regVars, mgrVars, connVars, callVars>>]_vars

CacheInit == OrchIdle /\ now = StartTime /\ FnIdle /\ ConnIdle /\ RLIdle /\ CacheStart(CacheTtls) /\ RetryIdle /\ RegIdle /\ MgrIdle

CacheNext ==
    \/ \E k \in Keys, v \in Values, o \in Overrides : CacheSet(k, v, o)
    \/ \E k \in Keys : CacheGet(k)
    \/ \E k \in Keys : CacheInvalidate(k)
    \/ \E p \in Prefixes : CacheInvalidatePrefix(p)
    \/ CacheClear
    \/ CacheStats
    \/ \E d \in TickSteps : CacheTick(d)

SpecCache == CacheInit /\ [][CacheNext /\ UNCHANGED <<orchVars, rlVars, retryVars, regVars, mgrVars, connVars, callVars>>]_vars

RetryInit == OrchIdle /\ now = StartTime /\ FnIdle /\ ConnIdle /\ RLIdle /\ CacheIdle /\ RegIdle /\ MgrIdle
             /\ RetryStart(RetryConfigs, Scripts)

RetryNext ==
    \/ RetryCall
    \/ RetryAttempt
    \/ RetryExhausted

SpecRetry == RetryInit /\ [][RetryNext /\ UNCHANGED <<orchVars, now, rlVars, cacheVars, regVars, mgrVars, connVars, callVars>>]_vars

\* configurations with at most two sources
LifecycleConfigs == {c \in Configs : Cardinality(EnabledSet(c)) <= 2}

\* a fetch that gives rows and one that raises
LifecycleFetches ==
    {[h |-> Table(MaxRows), t |-> Table(0)],
     [h |-> Raises("DataFetchError", "timeout"), t |-> NotCalled]}

LifecycleInit == OrchStart(LifecycleConfigs) /\ now = StartTime /\ ConnIdle /\ FnIdle /\ RLIdle /\ CacheIdle /\ RetryIdle /\ RegIdle /\ MgrIdle

LifecycleNext ==
    \/ \E auth \in AuthChoices : RunFullSyncBegin(NoFilter, auth)
    \/ \E p \in LifecycleFetches : SyncNext(p.h, p.t)
    \/ RunFullSyncReturn
    \/ \E out \in DisconnectChoices : DisconnectAll(out)

\* cycles of run_full_sync with disconnect_all between them
SpecLifecycle ==
    LifecycleInit /\ [][LifecycleNext /\ UNCHANGED <<now, rlVars, cacheVars, retryVars, regVars, mgrVars, connVars, callVars>>]_vars

SyncSourceInit == OrchIdle /\ now = StartTime /\ ConnIdle /\ RLIdle /\ CacheIdle /\ RetryIdle /\ RegIdle /\ MgrIdle
                  /\ FnStart(SyncArgs)

\* result = self._sync_source(source_id, connector)
SyncSource ==
    /\ fn_name = "-"
    /\ fn_name' = "_sync_source"
    /\ fn_out' = <<_sync_source(fn_in[1].source_id, fn_in[1].h, fn_in[1].t).result>>
    /\ UNCHANGED fn_in

SpecSyncSource ==
    SyncSourceInit /\ [][SyncSource /\ UNCHANGED <<orchVars, now, rlVars, cacheVars, retryVars, regVars, mgrVars, connVars>>]_vars

FetchInit == OrchIdle /\ now = StartTime /\ FnIdle /\ ConnIdle /\ RLIdle /\ CacheIdle /\ RegIdle /\ MgrIdle
             /\ RetryStart({FetchRetryConfig}, FetchScripts)

\* no RequestException leaves the body of a decorated fetch, so the loop of
\* the wrapper never runs to its end here
FetchNext ==
    \/ RetryCall
    \/ RetryAttempt

RegistryInit == OrchIdle /\ now = StartTime /\ FnIdle /\ ConnIdle /\ RLIdle /\ CacheIdle /\ RetryIdle
                /\ RegStart /\ MgrIdle

RegistryNext ==
    \/ CallConstruct
    \/ CallReset
    \/ \E m \in MdRefs : CallRegister(m)
    \/ \E id \in PluginIds : CallUnregister(id)
    \/ \E id \in PluginIds : CallEnable(id)
    \/ \E id \in PluginIds : CallDisable(id)
    \/ \E id \in PluginIds : CallGet(id)
    \/ \E q \in Queries : CallQuery(q)
    \/ \E id \in PluginIds : CallIsEnabled(id)
    \/ \E m \in MdRefs : CallerMutate(m)
    \/ CallerMutateList

SpecRegistry ==
    RegistryInit /\ [][RegistryNext /\ UNCHANGED <<orchVars, now, rlVars, cacheVars, retryVars, mgrVars, connVars, callVars>>]_vars

RegThreadsNext ==
    \E t \in Threads :
        \/ T_New(t)
        \/ T_NewCheck(t)
        \/ T_NewCreate(t)
        \/ T_NewInit(t)
        \/ T_NewRelease(t)
        \/ T_NewReturn(t)
        \/ T_Reset(t)
        \/ T_ResetCheck(t)
        \/ T_ResetPlugins(t)
        \/ T_ResetEnabled(t)
        \/ T_ResetRelease(t)
        \/ \E m \in MdRefs : T_Register(t, m)
        \/ T_RegisterStore(t)
        \/ \E id \in PluginIds : T_Unregister(t, id)
        \/ T_UnregisterDel(t)
        \/ T_UnregisterDiscard(t)
        \/ \E id \in PluginIds : T_Enable(t, id)
        \/ T_EnableAdd(t)
        \/ \E id \in PluginIds : T_Disable(t, id)
        \/ T_DisableDiscard(t)

SpecRegThreads ==
    RegistryInit /\ [][RegThreadsNext /\ UNCHANGED <<orchVars, now, rlVars, cacheVars, retryVars, mgrVars, connVars, callVars>>]_vars

ManagerInit == OrchIdle /\ now = StartTime /\ FnIdle /\ ConnIdle /\ RLIdle /\ CacheIdle /\ RetryIdle
               /\ RegConstructed /\ MgrStart(Directories)

ManagerNext ==
    \/ \E force_refresh \in BOOLEAN : MgrDiscover(force_refresh)
    \/ MgrListPlugins

SpecManager ==
    ManagerInit /\ [][ManagerNext /\ UNCHANGED <<orchVars, now, rlVars, cacheVars, retryVars,
                                                  reg_instance, reg_lock, seqVars, reg_refs,
                                                  th, reg_true, reg_ops, connVars, callVars>>]_vars

LoadInit == OrchIdle /\ now = StartTime /\ FnIdle /\ ConnIdle /\ RLIdle /\ CacheIdle /\ RetryIdle
            /\ RegConstructed /\ MgrStart(DirectoriesOf(LoadPool, MaxLoadEntries))

LoadNext ==
    \/ \E force_refresh \in BOOLEAN : MgrDiscover(force_refresh)
    \/ MgrListPlugins
    \/ \E plugin_id \in PluginIds, conn \in Connectors : MgrLoad(plugin_id, conn)

SpecLoad ==
    LoadInit /\ [][LoadNext /\ UNCHANGED <<orchVars, now, rlVars, cacheVars, retryVars,
                                            reg_instance, reg_lock, seqVars, reg_refs,
                                            th, reg_true, reg_ops, connVars, callVars>>]_vars

RescanInit == OrchIdle /\ now = StartTime /\ FnIdle /\ ConnIdle /\ RLIdle /\ CacheIdle /\ RetryIdle
              /\ RegConstructed /\ MgrStart(DirectoriesOf(ScanPool, MaxScanEntries))

RescanNext ==
    \/ \E force_refresh \in BOOLEAN : MgrDiscover(force_refresh)
    \/ MgrListPlugins
    \/ \E dir \in DirectoriesOf(ScanPool, MaxScanEntries) : MgrChangeDir(TRUE, dir)
    \/ MgrChangeDir(FALSE, <<>>)

SpecRescan ==
    RescanInit /\ [][RescanNext /\ UNCHANGED <<orchVars, now, rlVars, cacheVars, retryVars,
                                                reg_instance, reg_lock, seqVars, reg_refs,
                                                th, reg_true, reg_ops, connVars, callVars>>]_vars

ConnInit == OrchIdle /\ now = StartTime /\ FnIdle /\ RLIdle /\ CacheIdle /\ RetryIdle /\ RegIdle /\ MgrIdle
            /\ ConnStart

ConnNext ==
    \/ \E out \in AuthOuts(cn.kind) : ConnAuthenticate(out)
    \/ \E out \in HoldingsOuts(cn) : ConnGetHoldings(out)
    \/ ConnDisconnect
    \/ \E required_keys \in RequiredKeyLists : ConnValidateConfig(required_keys)

SpecConn == ConnInit /\ [][ConnNext /\ UNCHANGED <<orchVars, now, rlVars, cacheVars, retryVars, regVars, mgrVars, callVars>>]_vars

SourceIdInit == OrchIdle /\ now = StartTime /\ ConnIdle /\ RLIdle /\ CacheIdle /\ RetryIdle /\ RegIdle /\ MgrIdle
                /\ FnStart(SourceIdArgs \X SourceIdArgs)

SpecSourceId ==
    SourceIdInit /\ [][GenerateSourceIds /\ UNCHANGED <<orchVars, now, rlVars, cacheVars, retryVars, regVars, mgrVars, connVars>>]_vars

TransactionsInit == OrchIdle /\ now = StartTime /\ ConnIdle /\ RLIdle /\ CacheIdle /\ RetryIdle /\ RegIdle /\ MgrIdle
                    /\ FnStart([kind : TransactionKinds, trades : TradeLists])

SpecTransactions ==
    TransactionsInit /\ [][SyncTransactions /\ UNCHANGED <<orchVars, now, rlVars, cacheVars, retryVars, regVars, mgrVars, connVars>>]_vars

\* registries in which a PluginManager registered plugins and a caller
\* enabled some of them
PopulatedRegistries ==
    LET a  == register(EmptyRegistry, 1).obj
        ab == register(a, 3).obj
    IN  {a, enable(a, "a").obj, enable(enable(ab, "a").obj, "b").obj}

RegPopulated ==
    /\ md_mut = {}
    /\ reg_instance = 1
    /\ reg_heap \in {<<o>> : o \in PopulatedRegistries}
    /\ reg_lock = NoThread
    /\ reg_self = NoObj
    /\ reg_last = NoCall
    /\ reg_refs = {1}
    /\ th = [t \in Threads |-> IdleThread]
    /\ reg_true = [id \in PluginIds |-> 0]
    /\ reg_ops = 0

\* configurations with at most one built-in source
SmallConfigs == {c \in Configs : Cardinality(EnabledSet(c)) <= 1}

OrchPluginsInit == OrchStart(SmallConfigs) /\ now = StartTime /\ ConnIdle /\ FnIdle /\ RLIdle /\ CacheIdle /\ RetryIdle
                   /\ RegPopulated /\ MgrIdle

\* the orchestrator in a process whose registry holds plugins
SpecOrchPlugins ==
    OrchPluginsInit /\ [][OrchNext /\ UNCHANGED <<now, rlVars, cacheVars, retryVars, regVars, mgrVars, connVars, callVars>>]_vars

SpecFetch == FetchInit /\ [][FetchNext /\ UNCHANGED <<orchVars, now, rlVars, cacheVars, regVars, mgrVars, connVars, callVars>>]_vars

-----------------------------------------------------------------------------
(* Claims about ImportOrchestrator                                         *)

ResultsOf(id) ==
    {j \in 1..Len(results.source_results) : results.source_results[j].source_id = id}

ErrorsNaming(id) ==
    {k \in 1..Len(results.errors) : results.errors[k][1] = id}

\* C1: in run_full_sync, whatever exception get_holdings or get_transactions
\* of a selected connector raises, exactly one ImportResult with success=false
\* and an error_message containing the original message is appended for that
\* source, run_full_sync returns normally, and every other selected source is
\* still synced (one ImportResult each, successful when its fetches succeed).
\* The loop never stops short: while it runs the sources consumed so far all
\* have their result, and on return all selected sources have.
C1_FetchFailureIsolated ==
    /\ pc \in {"sync", "done"} => Len(results.source_results) = sync_idx
    /\ pc = "done" => sync_idx = Len(sources_to_sync)
    /\ pc \in {"sync", "done"} =>
         \A i \in 1..sync_idx :
            LET id == sources_to_sync[i] IN
            /\ Cardinality(ResultsOf(id)) = 1
            /\ \A j \in ResultsOf(id) :
                 LET r == results.source_results[j] IN
                 IF fetch_log[id].exc # NoExc
                 THEN /\ ~r.success
                      /\ fetch_log[id].exc.msg \in Range(r.error_message)
                 ELSE r.success

\* a cycle returned in which one source raised DataFetchError and another synced
C1_Witness ==
    /\ pc = "done"
    /\ \E a, b \in Range(sources_to_sync) :
         /\ a # b
         /\ fetch_log[a].exc.type = "DataFetchError"
         /\ fetch_log[b].called /\ fetch_log[b].exc = NoExc

\* C2: in the cycle that initializes the connectors, every enabled source
\* whose initialization fails (authenticate raises or reports failure, or the
\* source cannot be constructed) yields exactly one entry in errors naming it,
\* every other enabled source yields an ImportResult, successful when its
\* fetches succeed, and success is true when at least one source succeeded.
InitFails(s) ==
    \/ s \in Constructible /\ auth_log[s] # "ok"
    \/ s \in {"fidelity", "alpha_vantage"}

C2_InitFailureIsolated ==
    (pc = "done" /\ did_init /\ ~source_filter.given) =>
        /\ \A s \in EnabledSet(config) :
             IF InitFails(s)
             THEN Cardinality(ErrorsNaming(s)) = 1
             ELSE /\ Cardinality(ResultsOf(s)) = 1
                  /\ \A j \in ResultsOf(s) :
                       fetch_log[s].exc = NoExc => results.source_results[j].success
        /\ (\E j \in 1..Len(results.source_results) : results.source_results[j].success)
             => Success(results)

\* C3: in every cycle on the same orchestrator, also the second and later
\* ones, a source whose initialization failed in an earlier cycle is still
\* reported in the error list.
C3_InitFailureReportedEveryCycle ==
    pc = "done" => \A s \in init_failed : ErrorsNaming(s) # {}

\* C4: on return the three totals equal the sums over source_results, errors
\* holds exactly one entry per ImportResult with success=false in addition to
\* the initialization failures of that cycle, and success is true iff at
\* least one ImportResult has success=true.
InitFailureCount == Cardinality({i \in 1..Len(init_log) : ~init_log[i].success})

FailedResults ==
    {j \in 1..Len(results.source_results) : ~results.source_results[j].success}

C4_Aggregation ==
    pc = "done" =>
        /\ results.total_records_imported = SumOver(results.source_results, "records_imported")
        /\ results.total_records_updated  = SumOver(results.source_results, "records_updated")
        /\ results.total_records_skipped  = SumOver(results.source_results, "records_skipped")
        /\ Len(results.errors) = InitFailureCount + Cardinality(FailedResults)
        /\ \A j \in FailedResults :
             Cardinality({k \in ErrorsNaming(results.source_results[j].source_id) :
                            k > InitFailureCount}) = 1
        /\ Success(results) <=>
             Cardinality({j \in 1..Len(results.source_results) :
                            results.source_results[j].success}) >= 1

\* a cycle returned with an initialization failure, a failed and a successful
\* source, and rows imported
C4_Witness ==
    /\ pc = "done"
    /\ InitFailureCount >= 1
    /\ FailedResults # {}
    /\ Success(results)
    /\ results.total_records_imported >= 1

-----------------------------------------------------------------------------
(* Claims about RateLimiter                                                *)

\* C5: with calls_per_minute = N and no intervening reset(), at most N
\* wait() calls return within any 60-second window: the (N+1)th of any N+1
\* consecutive calls returns no earlier than 60 seconds after the first.
C5_MinuteCeiling ==
    \A i \in 1..Len(rl_hist) :
        (i + rl.calls_per_minute <= Len(rl_hist))
            => rl_hist[i + rl.calls_per_minute] - rl_hist[i] >= 60

\* N+1 calls were made back to back and the last one blocked until the
\* window rolled over
C5_Witness ==
    /\ rl.calls_per_minute >= 2
    /\ Len(rl_hist) = rl.calls_per_minute + 1
    /\ rl_sleeps >= 1
    /\ rl_hist[Len(rl_hist)] - rl_hist[1] = 60

C7_WaitReturn ==
    rl_calls >= 1 =>
        /\ rl_ret = rl_elapsed - rl_over
        /\ (rl_ret = 0) <=> (rl_sleeps = 0)
        /\ Len(rl_hist) = 1 => (rl_ret = 0 /\ rl_sleeps = 0 /\ rl_elapsed = 0)

\* the first wait() after a reset() that followed three calls returned 0
C7_Witness ==
    /\ Len(rl_hist) = 1
    /\ rl_calls = 4
    /\ rl_ret = 0
    /\ now - rl.last_call_time = 0

-----------------------------------------------------------------------------
(* Claims about ResponseCache                                              *)

\* C8: set(k, v) followed by get(k) before the TTL elapses returns v; once
\* the TTL has elapsed get(k) returns a miss and removes the entry, so that
\* stats() no longer counts it in entries, expired or valid.
C8_CacheRoundTrip ==
    \A k \in Keys :
        (c_last.op = "get" /\ c_last.key = k /\ c_set[k].live
            /\ c_set[k].override = NoOverride) =>
            IF now < c_set[k].at + cache_ttl
            THEN c_last.hit /\ c_last.value = c_set[k].value
            ELSE /\ ~c_last.hit
                 /\ ~cache[k].present
                 /\ LET others == {j \in Keys \ {k} : cache[j].present}
                        st == Stats(cache, now)
                    IN  /\ st.entries = Cardinality(others)
                        /\ st.expired = Cardinality({j \in others : cache[j].expiry <= now})
                        /\ st.valid = Cardinality({j \in others : now < cache[j].expiry})

\* a get() after the TTL of a set(k, v) had elapsed: a miss
C8_WitnessExpired ==
    \E k \in Keys :
        /\ c_last.op = "get" /\ c_last.key = k /\ ~c_last.hit
        /\ c_set[k].live /\ c_set[k].override = NoOverride
        /\ now >= c_set[k].at + cache_ttl
        /\ \E j \in Keys \ {k} : cache[j].present

\* C9: set(k, v, ttl_override=t) stores the entry with expiry equal to the
\* set time plus t for every supplied t, t = 0 included, and uses the default
\* TTL only when no override is supplied.
C9_OverrideExpiry ==
    \A k \in Keys :
        (cache[k].present /\ c_set[k].live) =>
            cache[k].expiry = c_set[k].at +
                (IF c_set[k].override # NoOverride THEN c_set[k].override ELSE cache_ttl)

-----------------------------------------------------------------------------
(* Claims about retry_with_backoff                                         *)

\* C10: for every R >= 0 and every k <= R, a function that raises a
\* retryable error on its first k invocations and then succeeds, wrapped
\* with max_retries = R, returns the success value and is invoked exactly
\* k + 1 times (R + 1 times when k = R).
C10_RetryThenSucceed ==
    (/\ rt_pc \in {"returned", "raised"}
     /\ Len(rt_script) <= rt_cfg.max_retries
     /\ \A i \in 1..Len(rt_script) : rt_script[i] \in rt_cfg.exceptions)
        => /\ rt_pc = "returned"
           /\ rt_result = "value"
           /\ rt_calls = Len(rt_script) + 1

\* the function failed exactly R = 2 times and the wrapper returned its value
C10_Witness ==
    /\ rt_pc = "returned"
    /\ rt_cfg.max_retries = 2
    /\ Len(rt_script) = 2
    /\ rt_calls = 3
    /\ \A i \in 1..Len(rt_script) : rt_script[i] \in rt_cfg.exceptions

\* index of the first invocation that raises an error outside the configured
\* exceptions, 0 if there is none
FirstFatal ==
    LET F == {i \in 1..Len(rt_script) : rt_script[i] \notin rt_cfg.exceptions}
    IN  IF F = {} THEN 0 ELSE CHOOSE i \in F : \A j \in F : i <= j

\* C11: an invocation that raises an error outside the configured exceptions
\* is the last thing the call does: the error propagates, and no sleep, no
\* on_retry call and no further invocation follows it, whatever max_retries
\* is and however many retryable failures came before it.
C11_NonRetryableOnce ==
    FirstFatal > 0 =>
        /\ rt_calls <= FirstFatal
        /\ rt_calls = FirstFatal =>
              /\ rt_pc = "raised"
              /\ rt_result = rt_script[FirstFatal]
              /\ rt_trace[Len(rt_trace)] = Ev("call", FirstFatal)
              /\ Len(rt_sleeps) = FirstFatal - 1
              /\ Len(rt_observed) = IF rt_cfg.on_retry THEN FirstFatal - 1 ELSE 0

\* the second invocation raised a non-retryable error after a retryable one,
\* with retries to spare
C11_Witness ==
    /\ rt_pc = "raised"
    /\ FirstFatal = 2
    /\ rt_calls = 2
    /\ rt_cfg.max_retries = 2
    /\ rt_cfg.on_retry

\* C12: when every invocation raises a retryable error, the function is
\* invoked max_retries + 1 times and the last error is raised; on_retry is
\* called max_retries times, with 1..max_retries in order, each right after
\* the failed invocation and before the sleep and the next invocation, and
\* nothing follows the final failed invocation.
C12_ExhaustedRetries ==
    (/\ rt_pc = "raised"
     /\ Len(rt_script) > rt_cfg.max_retries
     /\ \A i \in 1..(rt_cfg.max_retries + 1) : rt_script[i] \in rt_cfg.exceptions)
        => LET R == rt_cfg.max_retries
               w == IF rt_cfg.on_retry THEN 3 ELSE 2
           IN  /\ rt_calls = R + 1
               /\ rt_result = rt_script[R + 1]
               /\ rt_observed = IF rt_cfg.on_retry THEN [k \in 1..R |-> k] ELSE <<>>
               /\ Len(rt_trace) = w * R + 1
               /\ rt_trace[w * R + 1] = Ev("call", R + 1)
               /\ \A k \in 1..R :
                     /\ rt_trace[w * (k - 1) + 1] = Ev("call", k)
                     /\ rt_cfg.on_retry => rt_trace[w * (k - 1) + 2] = Ev("on_retry", k)
                     /\ rt_trace[w * k].ev = "sleep"

\* three retryable failures used up max_retries = 2, with an observer
C12_Witness ==
    /\ rt_pc = "raised"
    /\ rt_cfg.max_retries = 2
    /\ rt_cfg.on_retry
    /\ rt_calls = 3
    /\ rt_observed = <<1, 2>>
    /\ \A i \in 1..3 : rt_script[i] \in rt_cfg.exceptions
    /\ rt_script[1] # rt_script[3]

RECURSIVE Pow(_, _)
Pow(b, n) == IF n = 0 THEN 1 ELSE b * Pow(b, n - 1)

\* C13: the delay slept after failed attempt a (from 0) is
\* min(initial_delay * exponential_base^a, max_delay), so that no delay
\* exceeds max_delay.
C13_DelayFormula ==
    \A a \in 0..(Len(rt_sleeps) - 1) :
        /\ rt_sleeps[a + 1] = Min(rt_cfg.initial_delay * Pow(rt_cfg.exponential_base, a),
                                  rt_cfg.max_delay)
        /\ rt_sleeps[a + 1] <= rt_cfg.max_delay

-----------------------------------------------------------------------------
(* Claims about the decorated connector fetches                            *)

\* C14: a connector fetch that surfaces DataFetchError or RateLimitError to
\* its caller has been invoked max_retries + 1 = 4 times, that is, it was
\* retried up to the retry budget first.
C14_FetchRetried ==
    (rt_pc = "raised" /\ rt_result \in {"DataFetchError", "RateLimitError"})
        => rt_calls = rt_cfg.max_retries + 1

-----------------------------------------------------------------------------
(* Claims about PluginRegistry                                             *)

\* C15: register(m) returns True exactly when m.id was not registered, and
\* otherwise returns False and leaves the registry, the metadata stored for
\* the id included, as it was; unregister(id) returns True exactly when id
\* was registered, leaves id neither registered nor enabled, and returns
\* False without changing anything when id was not registered.
C15_RegisterUnregister ==
    reg_self # NoObj =>
        LET o  == reg_heap[reg_self]
            b  == reg_last.before
            id == reg_last.id
        IN  /\ reg_last.op = "register" =>
                  /\ reg_last.ret = ~IsRegistered(b, id)
                  /\ ~reg_last.ret => o = b
                  /\ reg_last.ret => o = [b EXCEPT !.plugins[id] = reg_last.m]
            /\ reg_last.op = "unregister" =>
                  /\ reg_last.ret = IsRegistered(b, id)
                  /\ ~IsRegistered(o, id)
                  /\ id \notin o.enabled
                  /\ ~reg_last.ret => o = b

\* register was called with other metadata for an id that is registered
C15_Witness ==
    /\ reg_self # NoObj
    /\ reg_last.op = "register"
    /\ ~reg_last.ret
    /\ get(reg_heap[reg_self], reg_last.id) \notin {NoMd, reg_last.m}

\* C16: with calls made one at a time, the enabled set is a subset of the
\* registered ids; enable(id) returns False and changes nothing for an
\* unregistered id, disable(id) returns True exactly when id was enabled,
\* is_enabled(id) implies that get(id) is present, and stats() has
\* total = enabled + disabled with disabled >= 0.
C16_EnabledSubset ==
    reg_self # NoObj =>
        LET o  == reg_heap[reg_self]
            b  == reg_last.before
            id == reg_last.id
        IN  /\ o.enabled \subseteq RegisteredIds(o)
            /\ reg_last.op = "enable" =>
                  /\ reg_last.ret = IsRegistered(b, id)
                  /\ ~reg_last.ret => o = b
            /\ reg_last.op = "disable" => reg_last.ret = (id \in b.enabled)
            /\ \A i \in PluginIds : is_enabled(o, i) => get(o, i) # NoMd
            /\ stats(o).total = stats(o).enabled + stats(o).disabled
            /\ stats(o).disabled >= 0

\* an enabled id was unregistered while another id stays enabled
C16_Witness ==
    /\ reg_self # NoObj
    /\ reg_last.op = "unregister"
    /\ reg_last.ret
    /\ reg_last.id \in reg_last.before.enabled
    /\ reg_heap[reg_self].enabled # {}

\* C18: what the reads return are copies: after a caller has changed a
\* returned PluginMetadata or a returned list, every registered id still
\* reads back with the fields it was registered with.
C18_ReadsReturnCopies ==
    reg_self # NoObj =>
        \A id \in RegisteredIds(reg_heap[reg_self]) :
            Md(get(reg_heap[reg_self], id)) = MdPool[get(reg_heap[reg_self], id)]

\* C17: the mutating calls of concurrent threads take effect as if they
\* were serialized: between two removals of an id at most one register
\* call for it returns True, and when no call is in progress no id is
\* enabled without being registered.
C17_Serialized ==
    /\ \A id \in PluginIds : reg_true[id] <= 1
    /\ (\A t \in Threads : th[t].pc = "idle") =>
          \A o \in 1..Len(reg_heap) : reg_heap[o].enabled \subseteq RegisteredIds(reg_heap[o])

\* C19: every construction, those racing in several threads included,
\* returns the one object, whose _plugins and _enabled are initialized once,
\* and a reset() that no other thread has written across leaves both empty
\* and cls._instance in place.
C19_Singleton ==
    /\ Len(reg_heap) <= 1
    /\ Cardinality(reg_refs) <= 1
    /\ \A o \in 1..Len(reg_heap) : reg_heap[o].inits <= 1
    /\ \A t \in Threads : th[t].self \in reg_refs \cup {NoObj}
    /\ reg_refs # {} => reg_instance \in reg_refs
    /\ \A t \in Threads :
          (th[t].op = "reset" /\ th[t].pc = "idle" /\ th[t].clean /\ reg_instance # NoObj)
              => /\ RegisteredIds(reg_heap[reg_instance]) = {}
                 /\ reg_heap[reg_instance].enabled = {}

\* both threads hold the object, one registered and enabled a plugin and
\* the other has reset the registry since
C19_Witness ==
    /\ \A t \in Threads : th[t].self = reg_instance /\ th[t].self # NoObj
    /\ \E t, u \in Threads :
          /\ th[t].op = "reset" /\ th[t].pc = "idle" /\ th[t].clean
          /\ th[u].op = "enable" /\ th[u].ret = "True"
    /\ reg_ops = 5

-----------------------------------------------------------------------------
(* Claims about PluginManager discovery                                    *)

\* a directory with a manifest that holds every required field
SoundPackage(e) ==
    /\ e.is_dir /\ ~e.hidden
    /\ e.manifest.yaml = "dict"
    /\ RequiredFields \subseteq e.manifest.present

\* C20: after discover_plugins() or list_plugins() on any directory, a
\* package whose manifest lacks a required field is not in the returned
\* list, not in _discovered and not registered; a package without manifest
\* is passed over; every sound package of the directory is returned,
\* discovered and registered; and the call has not raised.
C20_DiscoveryIsolation ==
    (mg_last.op # "-" /\ mg_exists) =>
        /\ mg_last.raised = "-"
        /\ \A i \in 1..Len(mg_dir) :
              LET e == mg_dir[i]
                  m == e.manifest.md
              IN  IF SoundPackage(e)
                  THEN /\ m \in Range(mg_last.ret)
                       /\ m \in Range(mg_discovered)
                       /\ get(reg_heap[reg_instance], Md(m).id) = m
                  ELSE m # NoMd =>
                       /\ m \notin Range(mg_last.ret)
                       /\ m \notin Range(mg_discovered)
                       /\ m \notin get_all(reg_heap[reg_instance])
        /\ Len(mg_last.ret) = Cardinality({i \in 1..Len(mg_dir) : SoundPackage(mg_dir[i])})

\* list_plugins() on a directory that holds a package without version (and
\* with the id of a sound package), a package without manifest and a sound
\* package
C20_Witness ==
    /\ mg_last.op = "list_plugins"
    /\ mg_last.ret = <<1>>
    /\ \E i, j \in 1..Len(mg_dir) :
          /\ mg_dir[i].name = <<"lacks", "version">>
          /\ mg_dir[j].name = <<"no_manifest">>
    /\ get(reg_heap[reg_instance], "a") = 1

\* the position of an event in a trace, 0 when it is not there
Pos(trace, ev) ==
    IF \E i \in 1..Len(trace) : trace[i] = ev
    THEN CHOOSE i \in 1..Len(trace) : trace[i] = ev
    ELSE 0

\* C21: load_plugin imports connector.py, or constructs or returns an
\* instance, only for an id that is in _discovered and after the scan of
\* the source passed in the same call, and the steps come in the order
\* validate, import, construct; a source with a blocked pattern raises
\* PluginValidationError and is not imported.
C21_LoadStages ==
    mg_last.op = "load_plugin" =>
        LET l == mg_load IN
        /\ (Pos(l.trace, "import") # 0 \/ Pos(l.trace, "construct") # 0 \/ l.ret # 0) =>
              /\ \E i \in 1..Len(mg_discovered) : Md(mg_discovered[i]).id = l.id
              /\ Pos(l.trace, "validate") = 1
              /\ ~l.conn.blocked
        /\ \E n \in 0..3 : l.trace = SubSeq(<<"validate", "import", "construct">>, 1, n)
        /\ l.ret # 0 => Pos(l.trace, "construct") = 3
        /\ ((\E i \in 1..Len(mg_discovered) : Md(mg_discovered[i]).id = l.id)
             /\ l.conn.exists /\ l.conn.blocked) =>
              /\ l.raised = "PluginValidationError"
              /\ l.trace = <<"validate">>
              /\ l.ret = 0

\* a discovered plugin whose connector.py holds a blocked pattern and
\* defines a concrete class was loaded
C21_Witness ==
    /\ mg_last.op = "load_plugin"
    /\ mg_load.conn.blocked /\ mg_load.conn.exists
    /\ mg_load.conn.classes = <<"concrete">>
    /\ \E i \in 1..Len(mg_discovered) : Md(mg_discovered[i]).id = mg_load.id
    /\ mg_load.raised = "PluginValidationError"

\* the concrete subclasses of BankIntegrationPlugin a module defines
NumConcrete(classes) == Cardinality({i \in 1..Len(classes) : classes[i] = "concrete"})

\* C22: load_plugin returns an instance only when the imported module
\* defines exactly one concrete connector class; when it defines none or
\* more than one, the call raises PluginLoadError and returns no instance.
C22_ExactlyOneConcrete ==
    (mg_last.op = "load_plugin" /\ Pos(mg_load.trace, "import") # 0
        /\ ~mg_load.conn.import_raises) =>
        /\ mg_load.ret # 0 => NumConcrete(mg_load.conn.classes) = 1
        /\ NumConcrete(mg_load.conn.classes) # 1 =>
              (mg_load.raised = "PluginLoadError" /\ mg_load.ret = 0)

\* the metadata of the packages of plugins_dir that discovery accepts now
ValidNow ==
    IF mg_exists
    THEN {mg_dir[i].manifest.md : i \in {j \in 1..Len(mg_dir) : SoundPackage(mg_dir[j])}}
    ELSE {}

\* C23: a discover_plugins call on a directory that has not changed since
\* the last scan returns the plugins the cache held and leaves the cache and
\* the registry as they were, with and without force_refresh; a call with
\* force_refresh returns exactly the packages that are valid now, also after
\* the directory changed; a call without force_refresh that finds a
\* non-empty cache returns the cached plugins and does not touch the cache.
C23_Rediscovery ==
    mg_last.op = "discover_plugins" =>
        /\ mg_prev.dir_state = "fresh" =>
              /\ Range(mg_last.ret) = Range(mg_prev.disc)
              /\ mg_discovered = mg_prev.disc
              /\ reg_heap[reg_instance] = mg_prev.registry
        /\ mg_prev.force =>
              /\ Range(mg_last.ret) = ValidNow
              /\ Range(mg_discovered) = ValidNow
        /\ (~mg_prev.force /\ mg_prev.disc # <<>>) =>
              /\ mg_last.ret = mg_prev.disc
              /\ mg_discovered = mg_prev.disc

\* discover_plugins(force_refresh=True) found a non-empty cache that the
\* directory no longer agrees with, and returned other plugins than cached
C23_Witness ==
    /\ mg_last.op = "discover_plugins"
    /\ mg_prev.force
    /\ mg_prev.dir_state = "stale"
    /\ mg_prev.disc # <<>>
    /\ Range(mg_last.ret) # Range(mg_prev.disc)
    /\ mg_last.ret # <<>>

-----------------------------------------------------------------------------
(* Claims about the connectors                                             *)

\* C24: get_holdings on a connector that is not authenticated (never
\* authenticated, after a failed authentication, after disconnect) raises
\* DataFetchError and returns nothing, whatever the connector.
C24_UnauthenticatedFetch ==
    (cn_last.op = "get_holdings" /\ ~cn_before.authenticated) =>
        /\ cn_last.raised = "DataFetchError"
        /\ cn_last.ret.kind = "raise"

\* the ImportResult _sync_source builds from what get_holdings did, the
\* transactions fetch finding nothing
SyncedResult == _sync_source(cn.kind, cn_last.ret, ReturnsNone).result

\* C25: get_holdings on an authenticated connector returns the empty table
\* only when no fetch of an account or exchange failed, and when one failed
\* the call raises, so that _sync_source does not record success with zero
\* records fetched.
C25_EmptyMeansZero ==
    (cn_last.op = "get_holdings" /\ cn_before.authenticated) =>
        /\ cn_last.ret = Table(0) => cn_last.failed = {}
        /\ cn_last.failed # {} =>
              /\ cn_last.ret.kind = "raise"
              /\ ~(SyncedResult.success /\ SyncedResult.records_fetched = 0)

\* what disconnect releases: the session, the accounts or exchanges with
\* their rate limiters, and the cache
Released(c) ==
    /\ ~c.authenticated
    /\ ~c.session
    /\ c.accounts = {}
    /\ c.limiters = {}
    /\ c.cache = {}

\* C26: disconnect() called in any state returns True and leaves the
\* connector unauthenticated with session, accounts, exchanges and cache
\* released; a disconnect that follows a disconnect changes nothing.
C26_DisconnectIdempotent ==
    cn_last.op = "disconnect" =>
        /\ cn_last.ok /\ cn_last.raised = "-"
        /\ Released(cn)
        /\ cn.config = cn_before.config
        /\ cn_last.prev_op = "disconnect" => cn = cn_before

\* a second disconnect, the first having found the connector authenticated
\* and with cached rows
C26_Witness ==
    /\ cn_last.op = "disconnect" /\ cn_last.prev_op = "disconnect"
    /\ cn_last.prev_loaded
    /\ cn = cn_before

\* the enabled exchanges of the configuration of the CCXT connector
EnabledExchanges(c) ==
    {c.config.exchanges[i].id : i \in {j \in 1..Len(c.config.exchanges) : c.config.exchanges[j].enabled}}

MissingRequired(c) ==
    CASE c.kind = "tiingo" -> {k \in {"api_key"} : Falsy(c.config, k)}
      [] c.kind = "sample_bank" -> {k \in {"username", "password"} : Falsy(c.config, k)}
      [] OTHER -> {}

\* C28: authenticate() on a connector with a required configuration field
\* missing raises ConfigurationError, and makes no network call.
C28_ConfigBeforeNetwork ==
    (cn_last.op = "authenticate" /\ MissingRequired(cn_before) # {}) =>
        /\ cn_last.raised = "ConfigurationError"
        /\ cn_last.net = 0

\* C29: _validate_config(required_keys) raises ConfigurationError exactly
\* when a required key is absent or maps to an empty value, the error lists
\* all those keys and no other, and a call that finds none missing returns;
\* the connector is never changed.
C29_ValidateConfig ==
    cn_last.op = "_validate_config" =>
        LET missing == {k \in Range(cn_last.args) : cn.config.keys[k] # "value"} IN
        /\ cn_last.raised = "ConfigurationError" <=> missing # {}
        /\ cn_last.raised \in {"ConfigurationError", "-"}
        /\ cn_last.raised = "ConfigurationError" => Range(cn_last.listed) = missing
        /\ cn = cn_before

\* _validate_config found two different keys missing, one absent and one
\* empty
C29_Witness ==
    /\ cn_last.op = "_validate_config"
    /\ cn_last.raised = "ConfigurationError"
    /\ Len(cn_last.listed) = 2 /\ cn_last.listed[1] # cn_last.listed[2]
    /\ \E k \in Range(cn_last.listed) : cn.config.keys[k] = "empty"
    /\ \E k \in Range(cn_last.listed) : cn.config.keys[k] = "absent"

-----------------------------------------------------------------------------
(* Claims about the source filter of run_full_sync                          *)

\* C30: in a cycle that run_full_sync was given a source_filter for, the
\* empty list included, every ImportResult names a source of the filter and
\* no connector outside the filter has get_holdings or get_transactions
\* called.
C30_FilterRestricts ==
    source_filter.given =>
        /\ \A i \in 1..Len(results.source_results) :
              results.source_results[i].source_id \in source_filter.ids
        /\ \A id \in SourceIds : fetch_log[id].called => id \in source_filter.ids

-----------------------------------------------------------------------------
(* Claims about deduplication keys and transaction rows                    *)

\* C31: generate_source_id returns the same id for two calls with the same
\* source, date, symbol and amount and no transaction id, different ids for
\* two such calls that differ only in the amount, and the source followed by
\* the transaction id, whatever date, symbol and amount, when one is given.
C31_SourceIdFunction ==
    fn_name = "generate_source_id" =>
        LET a == fn_in[1]
            b == fn_in[2]
            NoId(x) == x.transaction_id = "None"
        IN  /\ (NoId(a) /\ a = b) => fn_out[1] = fn_out[2]
            /\ (NoId(a) /\ NoId(b) /\ [a EXCEPT !.amount = b.amount] = b
                  /\ a.amount # b.amount) => fn_out[1] # fn_out[2]
            /\ a.transaction_id = "t1" => fn_out[1] = <<a.source, "_", "t1">>

\* the rows of the processed table for which the source supplied no id
NoNativeId ==
    {i \in 1..Len(fn_out.rows) :
        fn_in.kind = "plain" \/ fn_in.trades[i].id = "absent"}

\* C32: after the transactions of a source were processed, every row for
\* which the source supplied no id carries the id derived from source, date,
\* symbol and amount, so that two such rows share a key only when these
\* fields coincide.
C32_DerivedIds ==
    (fn_name = "_process_transactions" /\ fn_out.rows # <<>>) =>
        /\ \A i \in NoNativeId :
              fn_out.rows[i].source_id = Derived(fn_in.kind, fn_out.rows[i])
        /\ \A i, j \in NoNativeId :
              fn_out.rows[i].source_id = fn_out.rows[j].source_id =>
                 /\ fn_out.rows[i].date = fn_out.rows[j].date
                 /\ fn_out.rows[i].symbol = fn_out.rows[j].symbol
                 /\ fn_out.rows[i].amount = fn_out.rows[j].amount

\* C33: every row a connector's get_transactions emits has one of the ten
\* standard transaction types, whatever side the source reports.
C33_StandardTypes ==
    fn_name = "_process_transactions" =>
        \A i \in 1..Len(fn_out.rows) :
            fn_out.rows[i].transaction_type \in TRANSACTION_TYPES

-----------------------------------------------------------------------------
(* Claims about plugin-backed sources in the orchestrator                  *)

\* the plugins that are registered and enabled
EnabledPlugins ==
    reg_heap[reg_instance].enabled \cap RegisteredIds(reg_heap[reg_instance])

\* C34: once the connectors are initialized, every plugin that is
\* registered and enabled is one of the orchestrator's connectors or is
\* recorded as a failed initialization.
C34_PluginSourcesInitialized ==
    initialized =>
        \A id \in EnabledPlugins : id \in Range(connectors) \/ id \in init_failed

-----------------------------------------------------------------------------
(* Claims about the authentication flag                                    *)

\* C35: is_authenticated reflects the most recent authenticate call: after
\* authenticate returned (False, message) the connector is not
\* authenticated, also when an earlier authenticate had succeeded, and a
\* get_holdings that follows is rejected with DataFetchError.
C35_FlagFollowsLastAuthenticate ==
    /\ (cn_last.op = "authenticate" /\ ~cn_last.ok) => ~cn.authenticated
    /\ (cn_last.op = "get_holdings" /\ cn_last.prev_op = "authenticate"
            /\ ~cn_last.prev_ok) =>
          cn_last.raised = "DataFetchError"

-----------------------------------------------------------------------------
(* Claims about the bookkeeping of ResponseCache                           *)

\* the keys get() answers with a hit at this moment
HitKeys(c, clock) == {k \in Keys : Get(c, k, clock).hit}

\* C36: stats() reports entries = expired + valid with valid the number of
\* keys get would answer with a hit at that moment (an entry whose expiry
\* equals the current time is expired for both) and removes nothing;
\* invalidate, invalidate_prefix and clear remove exactly the targeted keys,
\* return whether or how many were removed and leave the other entries as
\* they were.
C36_CacheBookkeeping ==
    [][ /\ c_last'.op = "stats" =>
            /\ c_last'.st.entries = c_last'.st.expired + c_last'.st.valid
            /\ c_last'.st.entries = Cardinality({k \in Keys : cache[k].present})
            /\ c_last'.st.valid = Cardinality(HitKeys(cache, now))
            /\ \A k \in Keys : (cache[k].present /\ cache[k].expiry = now) =>
                                   k \notin HitKeys(cache, now)
            /\ cache' = cache
        /\ c_last'.op = "invalidate" =>
            /\ c_last'.hit = cache[c_last'.key].present
            /\ cache' = [cache EXCEPT ![c_last'.key] = Absent]
        /\ c_last'.op = "invalidate_prefix" =>
            /\ c_last'.n = Cardinality({k \in Keys : cache[k].present
                                                      /\ StartsWith(k, c_last'.key)})
            /\ \A k \in Keys : cache'[k] = IF StartsWith(k, c_last'.key)
                                           THEN Absent ELSE cache[k]
        /\ c_last'.op = "clear" =>
            /\ c_last'.n = Cardinality({k \in Keys : cache[k].present})
            /\ \A k \in Keys : ~cache'[k].present
    ]_vars

\* stats() called at the very moment an entry expires, another entry still
\* being valid
C36_Witness ==
    /\ c_last.op = "stats"
    /\ \E k \in Keys : cache[k].present /\ cache[k].expiry = now
    /\ c_last.st.valid > 0

-----------------------------------------------------------------------------
(* Claims about the manager and the registry it fills                      *)

\* the ids of a list of PluginMetadata
IdsOf(ms) == {Md(ms[i]).id : i \in 1..Len(ms)}

\* C37: after every discover_plugins call of the one manager that fills the
\* registry, the call returned at most one PluginMetadata per id, the
\* registered ids are the ids list_plugins() gives, and registry.get(id) is
\* the metadata the manager holds for that id.
C37_ManagerRegistryAgree ==
    (mg_last.op = "discover_plugins" /\ mg_last.raised = "-") =>
        /\ \A i, j \in 1..Len(mg_last.ret) :
              Md(mg_last.ret[i]).id = Md(mg_last.ret[j]).id => i = j
        /\ RegisteredIds(reg_heap[reg_instance]) = IdsOf(mg_discovered)
        /\ \A i \in 1..Len(mg_discovered) :
              get(reg_heap[reg_instance], Md(mg_discovered[i]).id) = mg_discovered[i]

-----------------------------------------------------------------------------
(* Claims about the ImportResult of one source                             *)

\* C38: the ImportResult of a per-source sync has records_fetched equal to
\* the holdings rows plus the transaction rows fetched; a successful one has
\* no error message and imported + updated + skipped = fetched; a failed
\* one has an error message and imported = updated = skipped = 0, also when
\* holdings had been fetched before the transactions fetch failed.
C38_ImportResultCounts ==
    fn_name = "_sync_source" =>
        LET a == fn_in[1]
            r == fn_out[1]
        IN  /\ r.records_fetched = Rows(a.h) + Rows(a.t)
            /\ r.success =>
                  /\ r.error_message = <<>>
                  /\ r.records_imported + r.records_updated + r.records_skipped
                        = r.records_fetched
            /\ ~r.success =>
                  /\ r.error_message # <<>>
                  /\ r.records_imported = 0
                  /\ r.records_updated = 0
                  /\ r.records_skipped = 0

\* holdings were fetched and the transactions fetch raised
C38_Witness ==
    /\ fn_name = "_sync_source"
    /\ Rows(fn_in[1].h) > 0
    /\ fn_in[1].t.kind = "raise"
    /\ ~fn_out[1].success
    /\ fn_out[1].records_fetched > 0

-----------------------------------------------------------------------------
(* Claims about the ownership of the connectors                            *)

\* how often id occurs in a list
Occurrences(seq, id) == Cardinality({i \in 1..Len(seq) : seq[i] = id})

\* C39: disconnect_all leaves the orchestrator without connectors and
\* uninitialized, having called disconnect() exactly once on every held
\* connector even when an earlier one raised; the next run_full_sync runs
\* the initialization again for the enabled sources; and between an
\* initialization and the next disconnect_all no run_full_sync initializes
\* again or adds or removes a connector.
C39_ConnectorOwnership ==
    [][ /\ disc_log'.calls # disc_log.calls =>
            /\ connectors' = <<>>
            /\ ~initialized'
            /\ Len(disc_log'.attempts) = Len(connectors)
            /\ \A id \in Range(connectors) : Occurrences(disc_log'.attempts, id) = 1
        /\ (pc # "sync" /\ pc' = "sync" /\ ~initialized) =>
            /\ did_init'
            /\ initialized'
            /\ connectors' = initialize_connectors(config, auth_log').connectors
            /\ init_log' = initialize_connectors(config, auth_log').results
        /\ (initialized /\ disc_log'.calls = disc_log.calls) =>
            /\ initialized'
            /\ connectors' = connectors
            /\ (pc # "sync" /\ pc' = "sync") => ~did_init'
    ]_vars

\* two connectors were held, the disconnect() of the first raised, and a
\* later cycle initialized them again
C39_Witness ==
    /\ disc_log.calls > 0
    /\ Len(disc_log.held) >= 2
    /\ disc_log.held[1] \in disc_log.raised
    /\ did_init
    /\ cycles > 1
    /\ connectors # <<>>

-----------------------------------------------------------------------------
(* Claims about the safety scan                                            *)

\* the text imports or calls one of the deny-listed primitives
ReferencesBlocked(code) ==
    \E i \in 1..Len(code) :
        code[i].kind \in {"import", "call"} /\ code[i].text \in BLOCKED_IMPORTS

\* C40: load_plugin raises PluginValidationError only for a connector.py
\* that imports or calls a deny-listed primitive; the shipped sample_bank
\* connector, which references none, passes the scan and is imported.
C40_ScanRejectsOnlyReferences ==
    mg_load.raised = "PluginValidationError" => ReferencesBlocked(mg_load.conn.code)

====
